---- MODULE Spec2Model ----
(***************************************************************************)
(* The documentation pipeline of ucan.xyz (scripts/process-docs.ts):       *)
(* main clears the docs directory, fetches every configured specification, *)
(* transforms it, writes it, then writes the sidebar manifest and copies   *)
(* the templates.                                                          *)
(*                                                                         *)
(* A text is a sequence of tokens.  A token is a string standing for one   *)
(* character ("#", " ", "\n", "[", ...) or for an indivisible run of word  *)
(* characters ("UCAN", "Editors", "1", ...).  A URL is the sequence of its *)
(* "/"-separated segments; a path below the docs directory is the sequence *)
(* of its segments.                                                        *)
(***************************************************************************)
EXTENDS Integers, Sequences, FiniteSets, TLC

\* ------------------------------------------------------------------ bounds
\* longest entry list PROCESSING_CONFIG.specs a run is given
MaxSpecs == 2
\* filesystem operations that may throw in one behaviour
MaxFsFaults == 1
\* runs of the script in one behaviour of SpecRerun
MaxRuns == 2

\* ------------------------------------------------------------ configuration
NL == "\n"
\* the token of the backquote character
Backtick == "<bq>"

delegationSpec ==
  [ name      |-> <<"delegation">>,
    title     |-> <<"UCAN", " ", "Delegation">>,
    githubUrl |-> <<"https:", "", "raw.githubusercontent.com", "ucan-wg",
                    "delegation", "main", "README.md">>,
    schemaUrl |-> <<"https:", "", "raw.githubusercontent.com", "ucan-wg",
                    "delegation", "main", "delegation.ipldsch">> ]

promiseSpec ==
  [ name      |-> <<"promise">>,
    title     |-> <<"UCAN", " ", "Promise">>,
    githubUrl |-> <<"https:", "", "raw.githubusercontent.com", "ucan-wg",
                    "promise", "refs", "heads", "v1-rc1", "README.md">>,
    schemaUrl |-> <<>> ]

goSpec ==
  [ name      |-> <<"libraries", "go">>,
    title     |-> <<"Go", " ", "Implementation">>,
    githubUrl |-> <<"https:", "", "raw.githubusercontent.com", "ucan-wg",
                    "go-ucan", "main", "Readme.md">>,
    schemaUrl |-> <<>> ]

\* the entries a configuration is drawn from
SpecUniverse == {delegationSpec, promiseSpec, goSpec}

RECURSIVE Distinct(_)
Distinct(s) ==
  IF Len(s) <= 1 THEN TRUE
  ELSE (\A i \in 2..Len(s) : s[i] # s[1]) /\ Distinct(Tail(s))

\* every entry list of at most MaxSpecs entries, names unique
Configs ==
  { s \in UNION { [1..n -> SpecUniverse] : n \in 0..MaxSpecs } : Distinct(s) }

removeTitleFromBody == TRUE
maxDescriptionLength == 160

sidebarConfig ==
  [ sidebar |-> <<
      [ label |-> "Overview",
        items |-> << [label |-> "Introduction", slug |-> "specification"] >> ],
      [ label |-> "Guides", autogenerate |-> [directory |-> "guides"] ],
      [ label |-> "Core Specifications",
        items |-> << [label |-> "Delegation", slug |-> "delegation"],
                     [label |-> "Invocation", slug |-> "invocation"],
                     [label |-> "Promise", slug |-> "promise", badge |-> "draft"],
                     [label |-> "Revocation", slug |-> "revocation"] >> ],
      [ label |-> "References",
        items |-> << [label |-> "Variable Signature", slug |-> "varsig"],
                     [label |-> "Container", slug |-> "container"] >> ],
      [ label |-> "Libraries",
        items |-> << [label |-> "JavaScript", slug |-> "libraries/javascript"],
                     [label |-> "Rust", slug |-> "libraries/rust"],
                     [label |-> "Go", slug |-> "libraries/go"],
                     [label |-> "Implementation", slug |-> "libraries/implementation"] >> ]
    >> ]

\* -------------------------------------------------------------------- state
VARIABLES
  specs,      \* PROCESSING_CONFIG.specs of the current run
  upstream,   \* what a request of each URL answers: [ok, text]
  fs,         \* the docs directory: path -> [kind, data]
  sidebar,    \* the file sidebar-config.json beside it
  pc,         \* where main is
  idx,        \* index of the running loop
  items,      \* what readdir returned and clearDocsDirectory has yet to visit
  buf,        \* the text the last fetch returned
  requested,  \* per URL, the requests made in the current run
  faults,     \* filesystem operations that threw so far
  run,        \* number of the current run
  prev,       \* configuration and output of the previous run
  before,     \* the docs directory as the current run found it
  dryRun,     \* the --dry-run flag of the content review
  result      \* what the last call of a function under study returned

vars == <<specs, upstream, fs, sidebar, pc, idx, items, buf, requested, faults,
          run, prev, before, dryRun, result>>

\* ------------------------------------------------------------------- texts
Min(a, b) == IF a <= b THEN a ELSE b
Max(a, b) == IF a >= b THEN a ELSE b

Whitespace == {" ", NL, "\t"}

\* s[i..j], empty when j < i
Slice(s, i, j) == IF j < i THEN <<>> ELSE SubSeq(s, i, j)

\* pat occurs in s at position i
MatchAt(s, i, pat) ==
  /\ i >= 1
  /\ i + Len(pat) - 1 <= Len(s)
  /\ SubSeq(s, i, i + Len(pat) - 1) = pat

\* ^ under the m flag
AtLineStart(s, i) == i = 1 \/ (i >= 2 /\ i <= Len(s) + 1 /\ s[i - 1] = NL)

\* position of the first "\n" at or after i, Len(s) + 1 when there is none
EolPos(s, i) ==
  LET nls == { j \in i..Len(s) : s[j] = NL }
  IN  IF nls = {} THEN Len(s) + 1 ELSE CHOOSE j \in nls : \A k \in nls : j <= k

\* String.prototype.trim
Trim(s) ==
  LET keep == { i \in 1..Len(s) : s[i] \notin Whitespace }
  IN  IF keep = {} THEN <<>>
      ELSE LET lo == CHOOSE i \in keep : \A k \in keep : i <= k
               hi == CHOOSE i \in keep : \A k \in keep : i >= k
           IN  SubSeq(s, lo, hi)

\* /^# (.+)$/m: the first line "# " followed by at least one character;
\* the position of its "#", 0 when no line matches
TitlePos(content) ==
  LET hits == { i \in 1..Len(content) :
                  /\ AtLineStart(content, i)
                  /\ MatchAt(content, i, <<"#", " ">>)
                  /\ EolPos(content, i) >= i + 3 }
  IN  IF hits = {} THEN 0 ELSE CHOOSE i \in hits : \A k \in hits : i <= k

RECURSIVE JoinWith(_, _)
\* Array.prototype.join
JoinWith(ts, sep) ==
  IF ts = <<>> THEN <<>>
  ELSE IF Len(ts) = 1 THEN Head(ts)
  ELSE Head(ts) \o sep \o JoinWith(Tail(ts), sep)

\* a URL (sequence of segments) as text
UrlText(url) == JoinWith([i \in 1..Len(url) |-> <<url[i]>>], <<"/">>)

\* /^https:\/\/raw\.githubusercontent\.com\/([^\/]+)\/([^\/]+)\/([^\/]+)\/(.+)$/
IsRawUrl(url) ==
  /\ Len(url) >= 7
  /\ url[1] = "https:" /\ url[2] = "" /\ url[3] = "raw.githubusercontent.com"
  /\ url[4] # "" /\ url[5] # "" /\ url[6] # ""
  /\ (Len(url) >= 8 \/ url[7] # "")

\* the edit URL of a raw URL, <<>> for null
convertToEditUrl(rawUrl) ==
  IF rawUrl = <<>> \/ ~IsRawUrl(rawUrl) THEN <<>>
  ELSE <<"https:", "", "github.com", rawUrl[4], rawUrl[5], "blob", rawUrl[6]>>
         \o SubSeq(rawUrl, 7, Len(rawUrl))

\* ------------------------------------------------------------ sidebar JSON
RECURSIVE Indent(_)
Indent(n) == IF n = 0 THEN <<>> ELSE <<"  ">> \o Indent(n - 1)

JStr(v) == <<"\"", v, "\"">>

\* the members of an object or array, one per line at depth d
JBlock(open, close, members, d) ==
  IF members = <<>> THEN <<open, close>>
  ELSE <<open, NL>>
       \o JoinWith([i \in 1..Len(members) |-> Indent(d + 1) \o members[i]],
                   <<",", NL>>)
       \o <<NL>> \o Indent(d) \o <<close>>

JMember(key, value) == JStr(key) \o <<":", " ">> \o value

JItem(it, d) ==
  JBlock("{", "}",
         << JMember("label", JStr(it.label)) >>
         \o (IF "slug" \in DOMAIN it
             THEN << JMember("slug", JStr(it.slug)) >> ELSE <<>>)
         \o (IF "badge" \in DOMAIN it
             THEN << JMember("badge", JStr(it.badge)) >> ELSE <<>>),
         d)

JGroup(g, d) ==
  JBlock("{", "}",
         << JMember("label", JStr(g.label)) >>
         \o (IF "items" \in DOMAIN g
             THEN << JMember("items",
                       JBlock("[", "]",
                              [i \in 1..Len(g.items) |-> JItem(g.items[i], d + 2)],
                              d + 1)) >>
             ELSE <<>>)
         \o (IF "autogenerate" \in DOMAIN g
             THEN << JMember("autogenerate",
                       JBlock("{", "}",
                              << JMember("directory",
                                         JStr(g.autogenerate.directory)) >>,
                              d + 1)) >>
             ELSE <<>>),
         d)

\* JSON.stringify(config, null, 2)
JSONStringify(config) ==
  JBlock("{", "}",
         << JMember("sidebar",
              JBlock("[", "]",
                     [i \in 1..Len(config.sidebar) |-> JGroup(config.sidebar[i], 2)],
                     1)) >>,
         0)

\* ---------------------------------------------------------- version tokens
\* With(x, F) is F(x), x being evaluated once and named inside F
With(x, F(_)) == CHOOSE r \in { F(v) : v \in {x} } : TRUE

\* the least element of a non-empty set of numbers
Least(S) == CHOOSE x \in S : \A y \in S : x <= y
Greatest(S) == CHOOSE x \in S : \A y \in S : x >= y

DigitToks == {"0", "1", "2", "3", "4", "5", "6", "7", "8", "9"}

\* the tokens that are not word characters (\W); every other token is a run
\* of word characters
NonWordToks ==
  {" ", NL, "\t", "#", "[", "]", "(", ")", "*", Backtick, "<", ">", "!", ":",
   ".", "-", "/", "\"", ",", "=", "{", "}", "|", "+", "?", "&", ";", "@", "",
   "---"}

IsWordAt(s, i) == i >= 1 /\ i <= Len(s) /\ s[i] \notin NonWordToks

\* \b before position p (p in 1..Len(s)+1)
WordBoundary(s, p) == IsWordAt(s, p - 1) # IsWordAt(s, p)

\* the position after the longest run of tokens of class C starting at i
RunEnd(s, i, C(_)) ==
  With({ j \in i..Len(s) : ~C(s[j]) }, LAMBDA stops :
    IF stops = {} THEN Max(i, Len(s) + 1) ELSE Least(stops))

IsDigit(t) == t \in DigitToks
IsSpace(t) == t \in Whitespace
IsNotSpace(t) == t \notin Whitespace
\* [a-zA-Z0-9.-]
IsSuffixChar(t) == (t \notin NonWordToks /\ t # "_") \/ t \in {".", "-"}

\* \d+\.\d+ at i: the position after it, 0 when it does not match
NumberEnd(s, i) ==
  With(RunEnd(s, i, IsDigit), LAMBDA e1 :
  With(RunEnd(s, e1 + 1, IsDigit), LAMBDA e2 :
    IF e1 > i /\ e1 <= Len(s) /\ s[e1] = "." /\ e2 > e1 + 1 THEN e2 ELSE 0))

\* the ends the pattern \d+\.\d+(?:\.\d+)?(?:-[a-zA-Z0-9.-]+)? can reach from
\* i, in the order the backtracking matcher tries them (greedy first)
VersionEnds(s, i) ==
  With(NumberEnd(s, i), LAMBDA e2 :
  With(IF e2 > 0 /\ e2 <= Len(s) /\ s[e2] = "."
       THEN RunEnd(s, e2 + 1, IsDigit) ELSE 0, LAMBDA d3 :
  With(IF d3 > e2 + 1 THEN d3 ELSE 0, LAMBDA e3 :
  With(IF e3 > 0 THEN e3 ELSE e2, LAMBDA base :
  With(IF base > 0 /\ base <= Len(s) /\ s[base] = "-"
       THEN RunEnd(s, base + 1, IsSuffixChar) ELSE 0, LAMBDA m :
  With(IF m > base + 1 THEN m - (base + 1) ELSE 0, LAMBDA n :
    IF e2 = 0 THEN <<>>
    ELSE [k \in 1..n |-> m - k + 1] \o <<base>>
         \o (IF e3 > 0 THEN <<e2>> ELSE <<>>)))))))

\* the first end in ends that After accepts, 0 when none
FirstEnd(s, ends, After(_, _)) ==
  With({ k \in 1..Len(ends) : After(s, ends[k]) }, LAMBDA ok :
    IF ok = {} THEN 0 ELSE ends[Least(ok)])

\* (?:v|version\s+)?(VERSION) at i followed by After: [from, to) of the
\* capture group, to = 0 when it does not match.  vs and versions are the
\* spellings the flags admit for the two prefixes.
VersionAt(s, i, vs, versions, After(_, _)) ==
  With(IF i <= Len(s) /\ s[i] \in vs
       THEN FirstEnd(s, VersionEnds(s, i + 1), After) ELSE 0, LAMBDA viaV :
  With(RunEnd(s, i + 1, IsSpace), LAMBDA w :
  With(IF viaV = 0 /\ i <= Len(s) /\ s[i] \in versions /\ w > i + 1
       THEN FirstEnd(s, VersionEnds(s, w), After) ELSE 0, LAMBDA viaVersion :
    IF viaV > 0 THEN [from |-> i + 1, to |-> viaV]
    ELSE IF viaVersion > 0 THEN [from |-> w, to |-> viaVersion]
    ELSE [from |-> i, to |-> FirstEnd(s, VersionEnds(s, i), After)])))

\* the leftmost position of starts where VersionAt matches, with its capture:
\* [at, from, to), at = 0 when there is none
FirstVersion(s, starts, vs, versions, After(_, _)) ==
  With({ i \in starts : VersionAt(s, i, vs, versions, After).to > 0 }, LAMBDA hits :
    IF hits = {} THEN [at |-> 0, from |-> 0, to |-> 0]
    ELSE With(Least(hits), LAMBDA i :
         With(VersionAt(s, i, vs, versions, After), LAMBDA m :
           [at |-> i, from |-> m.from, to |-> m.to])))

\* /\b(?:v|version\s+)?(\d+\.\d+(?:\.\d+)?(?:-[a-zA-Z0-9.-]+)?)\b/i in s
TitleVersionMatch(s) ==
  FirstVersion(s, { i \in 1..Len(s) : WordBoundary(s, i) },
               {"v", "V"}, {"version", "Version", "VERSION"}, WordBoundary)

\* \s*$ under the m flag, at position e
BlankToEol(s, e) == \A k \in e..(EolPos(s, e) - 1) : s[k] \in Whitespace

\* /(?:^|\n)(?:v|version\s+)?(\d+\.\d+(?:\.\d+)?(?:-[a-zA-Z0-9.-]+)?)\s*$/m:
\* the capture of the first match, <<>> when there is none
VersionPatternMatch(content) ==
  With(FirstVersion(content, { i \in 1..Len(content) : AtLineStart(content, i) },
                    {"v"}, {"version"}, BlankToEol), LAMBDA m :
    Slice(content, m.from, m.to - 1))

\* ------------------------------------------------------------- sanitizeText
\* String.prototype.replace with a global pattern: EndAt(s, j) is the
\* position after the match that starts at j (0: no match there), Subst(s, j)
\* what replaces it; matches are taken leftmost first and do not overlap
ReplaceAll(s, EndAt(_, _), Subst(_, _)) ==
  With(s, LAMBDA t :
    LET from[i \in 1..(Len(t) + 1)] ==
          With({ j \in i..Len(t) : EndAt(t, j) > 0 }, LAMBDA hits :
            IF hits = {} THEN Slice(t, i, Len(t))
            ELSE With(Least(hits), LAMBDA j :
                   Slice(t, i, j - 1) \o Subst(t, j) \o from[EndAt(t, j)]))
    IN  from[1])

\* the first position >= i holding tok, 0 when there is none
FirstPos(s, i, tok) ==
  With({ j \in i..Len(s) : s[j] = tok }, LAMBDA ps :
    IF ps = {} THEN 0 ELSE Least(ps))

RECURSIVE ChainEnd(_, _, _, _)
\* .*?P1.*?P2...  from position from, inside the line that ends before eol:
\* the position after the lazy match, 0 when there is none
ChainEnd(s, from, eol, pats) ==
  IF pats = <<>> THEN from
  ELSE With(Head(pats), LAMBDA pat :
       With({ q \in from..(eol - 1) :
                /\ MatchAt(s, q, pat)
                /\ q + Len(pat) - 1 < eol
                /\ ChainEnd(s, q + Len(pat), eol, Tail(pats)) > 0 }, LAMBDA ps :
         IF ps = {} THEN 0
         ELSE ChainEnd(s, Least(ps) + Len(pat), eol, Tail(pats))))

\* open.*?P1.*?P2... at i
DelimEnd(s, i, open, pats) ==
  IF MatchAt(s, i, open)
  THEN ChainEnd(s, i + Len(open), EolPos(s, i), pats) ELSE 0

\* s.replace(/open(.*?)P1.*?P2.../g, keep ? '$1' : ''): every match replaced
\* by its first group (keep; pats is then the single closing delimiter) or
\* by ''
ReplaceDelim(s, open, pats, keep) ==
  ReplaceAll(s,
    LAMBDA t, i : DelimEnd(t, i, open, pats),
    LAMBDA t, i : IF keep
                  THEN Slice(t, i + Len(open),
                             DelimEnd(t, i, open, pats) - Len(pats[Len(pats)]) - 1)
                  ELSE <<>>)

\* /\[([^\]]+)\]\([^)]+\)/ at i: the "]" and the position after the match,
\* end = 0 when it does not match
InlineLinkAt(s, i) ==
  With(IF i <= Len(s) /\ s[i] = "[" THEN FirstPos(s, i + 1, "]") ELSE 0, LAMBDA j :
  With(IF j >= i + 2 /\ j + 1 <= Len(s) /\ s[j + 1] = "("
       THEN FirstPos(s, j + 2, ")") ELSE 0, LAMBDA k :
    IF k >= j + 3 /\ j > 0 THEN [close |-> j, end |-> k + 1]
    ELSE [close |-> 0, end |-> 0]))

\* s.replace(/\[([^\]]+)\]\([^)]+\)/g, '$1')
StripLinks(s) ==
  ReplaceAll(s,
    LAMBDA t, i : InlineLinkAt(t, i).end,
    LAMBDA t, i : Slice(t, i + 1, InlineLinkAt(t, i).close - 1))

\* \s+ at i: the position after the run, 0 when s[i] is not blank
BlankEnd(s, i) == IF s[i] \in Whitespace THEN RunEnd(s, i, IsSpace) ELSE 0

\* s.replace(/\s+/g, ' ')
CollapseSpace(s) == ReplaceAll(s, BlankEnd, LAMBDA t, i : <<" ">>)

sanitizeText(text) ==
  Trim(CollapseSpace(
    ReplaceDelim(
      ReplaceDelim(
        ReplaceDelim(
          ReplaceDelim(
            ReplaceDelim(
              ReplaceDelim(StripLinks(text),
                <<"[", "!", "[">>,
                << <<"]", "(">>, <<")", "]", "(">>, <<")">> >>, FALSE),
              <<"!", "[">>, << <<"]", "(">>, <<")">> >>, FALSE),
            <<"*", "*">>, << <<"*", "*">> >>, TRUE),
          <<"*">>, << <<"*">> >>, TRUE),
        <<Backtick>>, << <<Backtick>> >>, TRUE),
      <<"<">>, << <<">">> >>, FALSE)))

\* ---------------------------------------------------------- processMarkdown
\* KEY\s+ (minWs = 1) or KEY\s* (minWs = 0) at the line start i, followed by
\* at least one character: the position after the blank run, 0 for no match
LineKeyAt(content, i, key, minWs) ==
  With(RunEnd(content, i + Len(key), IsSpace), LAMBDA w :
    IF /\ AtLineStart(content, i)
       /\ MatchAt(content, i, key)
       /\ w - (i + Len(key)) >= minWs
       /\ w <= Len(content)
    THEN w ELSE 0)

\* /^KEY\s+(.+)$/m (minWs = 1) or /^KEY\s*(.+)$/m (minWs = 0): the trimmed
\* capture of the first match, <<>> when there is none or when it is empty
LineKeyMatch(content, key, minWs) ==
  With({ i \in 1..Len(content) : LineKeyAt(content, i, key, minWs) > 0 }, LAMBDA hits :
    IF hits = {} THEN <<>>
    ELSE With(LineKeyAt(content, Least(hits), key, minWs), LAMBDA w :
           Trim(Slice(content, w, EolPos(content, w) - 1))))

\* the capture of the version pattern in the title, <<>> when it has none
TitleVersion(title) ==
  With(TitleVersionMatch(title), LAMBDA m :
    IF m.at > 0 THEN Slice(title, m.from, m.to - 1) ELSE <<>>)

\* ExtractVersion, were the "## Version" heading asked before the title
ExtractVersionHeadingFirst(content, tp) ==
  With(LineKeyMatch(content, <<"#", "#", " ", "Version">>, 1), LAMBDA heading :
    IF heading # <<>> THEN heading
    ELSE With(IF tp > 0
              THEN TitleVersion(Slice(content, tp + 2, EolPos(content, tp) - 1))
              ELSE <<>>, LAMBDA inTitle :
      IF inTitle # <<>> THEN inTitle
      ELSE With(LineKeyMatch(content, <<"Version", ":">>, 0), LAMBDA meta :
        IF meta # <<>> THEN meta ELSE VersionPatternMatch(content))))

\* the version of a document whose title line is at tp (0: no title), <<>>
\* for null: the four patterns in their order of preference
ExtractVersion(content, tp) ==
  With(IF tp > 0
       THEN TitleVersion(Slice(content, tp + 2, EolPos(content, tp) - 1))
       ELSE <<>>, LAMBDA inTitle :
    IF inTitle # <<>> THEN inTitle
    ELSE With(LineKeyMatch(content, <<"#", "#", " ", "Version">>, 1), LAMBDA heading :
      IF heading # <<>> THEN heading
      ELSE With(LineKeyMatch(content, <<"Version", ":">>, 0), LAMBDA meta :
        IF meta # <<>> THEN meta ELSE VersionPatternMatch(content))))

\* the position after the last non-blank token before position at, 1 if none
AfterLastNonBlank(s, at) ==
  With({ j \in 1..(at - 1) : s[j] \notin Whitespace }, LAMBDA notWs :
    IF notWs = {} THEN 1 ELSE Greatest(notWs) + 1)

\* StripVersion, were the pattern without its optional prefix: the number
\* goes, "v" and "version" stay
StripNumber(title) ==
  With(TitleVersionMatch(title), LAMBDA m :
    IF m.at = 0 THEN Trim(title)
    ELSE Trim(Slice(title, 1, m.from - 1) \o Slice(title, m.to, Len(title))))

\* title.replace(/\s*\b(?:v|version\s+)?\d+\.\d+(?:\.\d+)?(?:-[a-zA-Z0-9.-]+)?\b/i, '').trim()
StripVersion(title) ==
  With(TitleVersionMatch(title), LAMBDA m :
    IF m.at = 0 THEN Trim(title)
    ELSE Trim(Slice(title, 1, AfterLastNonBlank(title, m.at) - 1)
              \o Slice(title, m.to, Len(title))))

\* ^# .+$\n at i: the position after the "\n", 0 for no match
TitleLineEnd(processed, i) ==
  With(EolPos(processed, i), LAMBDA eol :
    IF /\ AtLineStart(processed, i)
       /\ MatchAt(processed, i, <<"#", " ">>)
       /\ eol >= i + 3
       /\ eol <= Len(processed)
    THEN eol + 1 ELSE 0)

\* (## Version .+$\n)? at e: the position after it
VersionLineEnd(processed, e) ==
  With(EolPos(processed, e), LAMBDA eol :
    IF /\ MatchAt(processed, e, <<"#", "#", " ", "Version", " ">>)
       /\ eol >= e + 6
       /\ eol <= Len(processed)
    THEN eol + 1 ELSE e)

\* processed.replace(/^# .+$\n(## Version .+$\n)?/m, '')
RemoveTitle(processed) ==
  With({ i \in 1..Len(processed) : TitleLineEnd(processed, i) > 0 }, LAMBDA hits :
    IF hits = {} THEN processed
    ELSE With(Least(hits), LAMBDA i :
           Slice(processed, 1, i - 1)
           \o Slice(processed,
                    VersionLineEnd(processed, TitleLineEnd(processed, i)),
                    Len(processed))))

\* # Abstract\s*\n\s* at i: where the capture starts (after the blank run, or
\* on its last character when the run reaches the end of the text), 0 for no
\* match
AbstractAt(processed, i) ==
  With(RunEnd(processed, i + 3, IsSpace), LAMBDA w :
  With(IF w <= Len(processed) THEN w ELSE Len(processed), LAMBDA g :
    IF /\ MatchAt(processed, i, <<"#", " ", "Abstract">>)
       /\ g > i + 3
       /\ \E k \in (i + 3)..(g - 1) : processed[k] = NL
    THEN g ELSE 0))

\* (?=\n#|\n\n|$) at e
AbstractStop(processed, e) ==
  \/ e = Len(processed) + 1
  \/ MatchAt(processed, e, <<NL, "#">>)
  \/ MatchAt(processed, e, <<NL, NL>>)

\* processed.match(/# Abstract\s*\n\s*(.+?)(?=\n#|\n\n|$)/s): [from, to) of
\* the capture, from = 0 when there is no match
AbstractMatch(processed) ==
  With({ i \in 1..Len(processed) : AbstractAt(processed, i) > 0 }, LAMBDA hits :
    IF hits = {} THEN [from |-> 0, to |-> 0]
    ELSE With(AbstractAt(processed, Least(hits)), LAMBDA g :
           [from |-> g,
            to |-> Least({ e \in (g + 1)..(Len(processed) + 1) :
                             AbstractStop(processed, e) })]))

\* s.replace(/\n/g, ' ')
NewlinesToSpaces(s) == [i \in 1..Len(s) |-> IF s[i] = NL THEN " " ELSE s[i]]

\* s.substring(0, n)
Substring0(s, n) == Slice(s, 1, Min(n, Len(s)))

\* ------------------------------------------------------------ link rewriting
\* a URL as the tokens of its text: "https:", "/", "/", host, "/", ...
UrlTokens(url) == SelectSeq(UrlText(url), LAMBDA t : t # "")

\* the repository URL of a raw URL, <<>> for null
convertRawUrlToRepoUrl(rawUrl) ==
  IF IsRawUrl(rawUrl)
  THEN <<"https:", "", "github.com", rawUrl[4], rawUrl[5]>> ELSE <<>>

\* the entries generateUrlMappings keeps: a githubUrl that is a raw URL
HasRepoUrl(sp) ==
  sp.githubUrl # <<>> /\ convertRawUrlToRepoUrl(sp.githubUrl) # <<>>

\* /name/
LocalPath(name) ==
  <<"/">> \o JoinWith([k \in 1..Len(name) |-> <<name[k]>>], <<"/">>) \o <<"/">>

\* generateUrlMappings, were every entry with a githubUrl given a mapping
generateUrlMappingsUnfiltered(specList) ==
  With(SelectSeq(specList, LAMBDA sp : sp.githubUrl # <<>>), LAMBDA usable :
    [i \in 1..Len(usable) |->
       [ from |-> UrlTokens(convertRawUrlToRepoUrl(usable[i].githubUrl)),
         to   |-> LocalPath(usable[i].name) ] ])

\* one mapping per entry with a raw githubUrl: repository URL -> /name/
generateUrlMappings(specList) ==
  With(SelectSeq(specList, HasRepoUrl), LAMBDA usable :
    [i \in 1..Len(usable) |->
       [ from |-> UrlTokens(convertRawUrlToRepoUrl(usable[i].githubUrl)),
         to   |-> LocalPath(usable[i].name) ] ])

\* LinkTo, were the pattern /\[([^\]]+)\]\(URL[^)]*\)/: any target that
\* starts with the URL
LinkToPrefix(s, i, url) ==
  With(IF i <= Len(s) /\ s[i] = "[" THEN FirstPos(s, i + 1, "]") ELSE 0, LAMBDA j :
  With(IF /\ j >= i + 2
          /\ MatchAt(s, j + 1, <<"(">>)
          /\ MatchAt(s, j + 2, url)
       THEN FirstPos(s, j + 2 + Len(url), ")") ELSE 0, LAMBDA k :
    IF k > 0 THEN [close |-> j, hash |-> k, end |-> k + 1]
    ELSE [close |-> 0, hash |-> 0, end |-> 0]))

\* /\[([^\]]+)\]\(URL(#[^)]*)?\)/ at i: close is the "]", hash = [hash, end-1)
LinkTo(s, i, url) ==
  With(IF i <= Len(s) /\ s[i] = "[" THEN FirstPos(s, i + 1, "]") ELSE 0, LAMBDA j :
  With(j + 2 + Len(url), LAMBDA p :
  With(/\ j >= i + 2
       /\ MatchAt(s, j + 1, <<"(">>)
       /\ MatchAt(s, j + 2, url), LAMBDA ok :
  With(IF ok /\ MatchAt(s, p, <<"#">>) THEN FirstPos(s, p + 1, ")") ELSE 0, LAMBDA k :
    IF ok /\ k > 0 THEN [close |-> j, hash |-> p, end |-> k + 1]
    ELSE IF ok /\ MatchAt(s, p, <<")">>)
         THEN [close |-> j, hash |-> p, end |-> p + 1]
    ELSE [close |-> 0, hash |-> 0, end |-> 0]))))

\* processed.replace(linkPattern, '[$1](to$2)')
ReplaceLinks(s, url, to) ==
  ReplaceAll(s,
    LAMBDA t, i : LinkTo(t, i, url).end,
    LAMBDA t, i : With(LinkTo(t, i, url), LAMBDA m :
                    Slice(t, i, m.close) \o <<"(">> \o to
                    \o Slice(t, m.hash, m.end - 2) \o <<")">>))

\* \s*$ under the m flag from h, tried greedily: the position the match ends
\* before, 0 when it cannot end at a line end
BlankRunEnd(s, h) ==
  With(RunEnd(s, h, IsSpace), LAMBDA r :
  With({ q \in h..(r - 1) : s[q] = NL }, LAMBDA nls :
    IF r > Len(s) THEN Len(s) + 1
    ELSE IF nls = {} THEN 0
    ELSE Greatest(nls)))

\* /^(\s*\[[^\]]+\]):\s*URL(#[^\s]*)?\s*$/m at the line start i: the label
\* group is [i, colon), the hash [hash, hashEnd), the match ends before end
RefTo(s, i, url) ==
  With(RunEnd(s, i, IsSpace), LAMBDA b :
  With(IF b <= Len(s) /\ s[b] = "[" THEN FirstPos(s, b + 1, "]") ELSE 0, LAMBDA j :
  With(RunEnd(s, j + 2, IsSpace), LAMBDA u :
  With(u + Len(url), LAMBDA p :
  With(/\ AtLineStart(s, i)
       /\ j >= b + 2
       /\ MatchAt(s, j + 1, <<":">>)
       /\ MatchAt(s, u, url), LAMBDA ok :
  With(IF ok /\ MatchAt(s, p, <<"#">>)
       THEN RunEnd(s, p + 1, IsNotSpace) ELSE p, LAMBDA h :
  With(IF ok THEN BlankRunEnd(s, h) ELSE 0, LAMBDA end :
    IF end > 0
    THEN [colon |-> j + 1, hash |-> p, hashEnd |-> h, end |-> end]
    ELSE [colon |-> 0, hash |-> 0, hashEnd |-> 0, end |-> 0])))))))

\* processed.replace(refPattern, '$1: to$2')
ReplaceRefs(s, url, to) ==
  ReplaceAll(s,
    LAMBDA t, i : RefTo(t, i, url).end,
    LAMBDA t, i : With(RefTo(t, i, url), LAMBDA m :
                    Slice(t, i, m.colon - 1) \o <<":", " ">> \o to
                    \o Slice(t, m.hash, m.hashEnd - 1)))

\* the inline-link and the reference pattern for one spelling of the URL
ApplyPatterns(s, url, to) == ReplaceRefs(ReplaceLinks(s, url, to), url, to)

\* ApplyMapping, were the URL with a trailing slash not tried
ApplyMappingNoSlash(s, m) == ApplyPatterns(s, m.from, m.to)

\* both patterns for a mapping, for the URL without and with a trailing slash
ApplyMapping(s, m) ==
  ApplyPatterns(ApplyPatterns(s, m.from, m.to), m.from \o <<"/">>, m.to)

RECURSIVE ApplyMappings(_, _)
ApplyMappings(s, ms) ==
  IF ms = <<>> THEN s ELSE ApplyMappings(ApplyMapping(s, Head(ms)), Tail(ms))

\* URL_MAPPINGS, were it generated from the entries fetched so far
URL_MAPPINGS_Fetched ==
  generateUrlMappings(
    SelectSeq(specs, LAMBDA sp :
      requested[sp.githubUrl] > 0 /\ upstream[sp.githubUrl].ok))

\* generated from the configured entries when the module loads
URL_MAPPINGS == generateUrlMappings(specs)

standardizeUCANLinks(content, urlMappings) == ApplyMappings(content, urlMappings)

\* [a-zA-Z0-9-]
IsAnchorChar(t) == (t \notin NonWordToks /\ t # "_") \/ t = "-"

\* /\[([^\]]+)\]:\s*#([a-zA-Z0-9-]+)/ at i: the ":", the "#" and the position
\* after the match, end = 0 for no match
AnchorRefAt(s, i) ==
  With(IF s[i] = "[" THEN FirstPos(s, i + 1, "]") ELSE 0, LAMBDA j :
  With(RunEnd(s, j + 2, IsSpace), LAMBDA w :
  With(RunEnd(s, w + 1, IsAnchorChar), LAMBDA e :
    IF /\ j >= i + 2
       /\ MatchAt(s, j + 1, <<":">>)
       /\ MatchAt(s, w, <<"#">>)
       /\ e > w + 1
    THEN [colon |-> j + 1, hash |-> w, end |-> e]
    ELSE [colon |-> 0, hash |-> 0, end |-> 0])))

\* processed.replace(/\[([^\]]+)\]:\s*#([a-zA-Z0-9-]+)/g, '[$1]: #$2')
NormalizeAnchorRefs(s) ==
  ReplaceAll(s,
    LAMBDA t, i : AnchorRefAt(t, i).end,
    LAMBDA t, i : With(AnchorRefAt(t, i), LAMBDA m :
                    Slice(t, i, m.colon) \o <<" ">>
                    \o Slice(t, m.hash, m.end - 1)))

\* the tokens whose first letter is the first letter of a removed heading
InitialOf(heading) ==
  CASE heading = "Editors"      -> {"E", "Editors", "Examples", "Extensions"}
    [] heading = "Authors"      -> {"A", "Authors", "Abstract", "Acknowledgments"}
    [] heading = "Dependencies" -> {"D", "Dependencies", "Delegation", "Design"}
    [] heading = "Language"     -> {"L", "Language", "License", "Links"}

\* (?=\n## [^X]|\n# [^X]|$) at position e, X the first letter of heading
SectionStop(s, e, heading) ==
  \/ e = Len(s) + 1
  \/ /\ MatchAt(s, e, <<NL, "#", "#", " ">>)
     /\ e + 4 <= Len(s)
     /\ s[e + 4] \notin InitialOf(heading)
  \/ /\ MatchAt(s, e, <<NL, "#", " ">>)
     /\ e + 3 <= Len(s)
     /\ s[e + 3] \notin InitialOf(heading)

\* /## Heading\s*\n[\s\S]*?(?=\n## [^X]|\n# [^X]|$)/ at i: the position after
\* the match, 0 when there is none
SectionEnd(s, i, heading) ==
  With(RunEnd(s, i + 4, IsSpace), LAMBDA w :
  With({ q \in (i + 4)..(w - 1) : s[q] = NL }, LAMBDA nls :
    IF MatchAt(s, i, <<"#", "#", " ", heading>>) /\ nls # {}
    THEN Least({ e \in (Greatest(nls) + 1)..(Len(s) + 1) :
                   SectionStop(s, e, heading) })
    ELSE 0))

\* processed.replace(/## Heading\s*\n[\s\S]*?(?=\n## [^X]|\n# [^X]|$)/g, '')
RemoveSection(s, heading) ==
  ReplaceAll(s, LAMBDA t, i : SectionEnd(t, i, heading), LAMBDA t, i : <<>>)

\* the headings of the four removal patterns, in the order they are applied
RemovedHeadings == <<"Editors", "Authors", "Dependencies", "Language">>

RECURSIVE RemoveSections(_, _)
RemoveSections(s, headings) ==
  IF headings = <<>> THEN s
  ELSE RemoveSections(RemoveSection(s, Head(headings)), Tail(headings))

RemoveMetadataSections(s) == RemoveSections(s, RemovedHeadings)

\* the characters of "Documentation for "
DocumentationFor ==
  <<"D", "o", "c", "u", "m", "e", "n", "t", "a", "t", "i", "o", "n", " ",
    "f", "o", "r", " ">>

\* TitleOf, were the entry's title not the fallback
TitleOfHeadingOnly(content, tp, specName) ==
  IF tp > 0 THEN Slice(content, tp + 2, EolPos(content, tp) - 1) ELSE <<>>

\* the title of the document: its first "# " line, else the entry's title
TitleOf(content, tp, specName) ==
  IF tp > 0 THEN Slice(content, tp + 2, EolPos(content, tp) - 1) ELSE specName

\* DescriptionOf, were the ellipsis appended in both cases
DescriptionWithEllipsis(body, cleanTitle) ==
  With(AbstractMatch(body), LAMBDA am :
    Substring0(sanitizeText(IF am.from > 0
                            THEN NewlinesToSpaces(Slice(body, am.from, am.to - 1))
                            ELSE DocumentationFor \o cleanTitle),
               maxDescriptionLength) \o <<".", ".", ".">>)

\* the description: the abstract with "..." when the body has one, else
\* "Documentation for <title>", sanitized and cut to maxDescriptionLength
DescriptionOf(body, cleanTitle) ==
  With(AbstractMatch(body), LAMBDA am :
    IF am.from > 0
    THEN Substring0(sanitizeText(NewlinesToSpaces(Slice(body, am.from, am.to - 1))),
                    maxDescriptionLength) \o <<".", ".", ".">>
    ELSE Substring0(sanitizeText(DocumentationFor \o cleanTitle),
                    maxDescriptionLength))

\* the frontmatter block
Frontmatter(cleanTitle, description, version, editUrl) ==
  <<"---", NL, "title: ", "\"">> \o cleanTitle \o <<"\"", NL,
    "description: ", "\"">> \o description \o <<"\"">>
  \o (IF version # <<>>
      THEN <<NL, "version: ", "\"">> \o version \o <<"\"">> ELSE <<>>)
  \o (IF editUrl # <<>>
      THEN <<NL, "editUrl: ", "\"">> \o UrlTokens(editUrl) \o <<"\"">>
      ELSE <<>>)
  \o <<NL, "---", NL, NL>>

\* the document written to <name>/index.md
processMarkdown(content, specName, githubUrl) ==
  With(TitlePos(content), LAMBDA tp :
  With(ExtractVersion(content, tp), LAMBDA version :
  With(sanitizeText(IF version # <<>>
                    THEN StripVersion(TitleOf(content, tp, specName))
                    ELSE TitleOf(content, tp, specName)), LAMBDA cleanTitle :
  With(IF removeTitleFromBody /\ tp > 0 THEN RemoveTitle(content)
       ELSE content, LAMBDA body :
    Frontmatter(cleanTitle, DescriptionOf(body, cleanTitle), version,
                IF githubUrl # <<>> THEN convertToEditUrl(githubUrl) ELSE <<>>)
    \o RemoveMetadataSections(
         NormalizeAnchorRefs(standardizeUCANLinks(body, URL_MAPPINGS)))))))

\* the document written to <name>/schema.md
processIPLDSchema(schemaContent, specName) ==
  <<"---", NL, "title: ", "\"">> \o specName \o <<" Schema", "\"", NL,
    "description: ", "\"", "IPLD schema definition for ">> \o specName
  \o <<"\"", NL, "---", NL, NL, "#", " ">> \o specName \o <<" Schema", NL, NL,
       "This document contains the IPLD schema definition for ">> \o specName
  \o <<".", NL, NL, Backtick, Backtick, Backtick, "ipldsch", NL>>
  \o schemaContent \o <<NL, Backtick, Backtick, Backtick, NL>>

\* --------------------------------------------------------------- filesystem
NoNode == [kind |-> "none", data |-> <<>>]
DirNode == [kind |-> "dir", data |-> <<>>]
FileNode(text) == [kind |-> "file", data |-> text]

IsPrefix(p, q) == Len(p) <= Len(q) /\ SubSeq(q, 1, Len(p)) = p
Prefixes(p) == { SubSeq(p, 1, n) : n \in 0..Len(p) }
Parent(p) == SubSeq(p, 1, Len(p) - 1)

IndexPath(spec) == spec.name \o <<"index.md">>
SchemaPath(spec) == spec.name \o <<"schema.md">>
GuidesDir == <<"guides">>
GitKeep == <<".gitkeep">>
StaleFile == <<"stale.md">>

\* scripts/templates, in the order copyTemplateDirectory walks it
TemplateSteps ==
  << [op |-> "write", path |-> <<"examples.md">>],
     [op |-> "write", path |-> <<"getting-started.md">>],
     [op |-> "mkdir", path |-> <<"guides">>],
     [op |-> "write", path |-> <<"guides", "getting-started.md">>],
     [op |-> "mkdir", path |-> <<"libraries">>],
     [op |-> "write", path |-> <<"libraries", "implementation.md">>] >>

\* the content of a template file
TemplateText(path) == <<"template">> \o path

\* every path of the model, the docs directory itself being <<>>
Paths ==
  UNION { Prefixes(IndexPath(sp)) \cup Prefixes(SchemaPath(sp)) : sp \in SpecUniverse }
  \cup { TemplateSteps[i].path : i \in 1..Len(TemplateSteps) }
  \cup { GuidesDir, GitKeep, StaleFile }

\* the names readdir of the docs directory can return, in its order
TopOrder ==
  <<".gitkeep", "delegation", "examples.md", "getting-started.md", "guides",
    "libraries", "promise", "stale.md">>

EmptyFs == [p \in Paths |-> NoNode]

\* fs.mkdir(p, { recursive: true }): throws when a file is in the way
MkdirOk(f, p) == \A q \in Prefixes(p) : f[q].kind # "file"
Mkdirp(f, p) ==
  [q \in Paths |-> IF q \in Prefixes(p) /\ f[q].kind = "none" THEN DirNode ELSE f[q]]

\* fs.writeFile(p, text): throws without the parent directory or onto a directory
WriteOk(f, p) == f[Parent(p)].kind = "dir" /\ f[p].kind # "dir"
WriteFile(f, p, text) == [f EXCEPT ![p] = FileNode(text)]

\* Remove, were a directory removed without what is below it
RemoveShallow(f, p) == [f EXCEPT ![p] = NoNode]

\* fs.rm(p, { recursive: true, force: true }) of a directory, fs.unlink of a file
Remove(f, p) == [q \in Paths |-> IF IsPrefix(p, q) THEN NoNode ELSE f[q]]

\* fs.readdir(docsDir)
ReadDir(f) == SelectSeq(TopOrder, LAMBDA n : f[<<n>>].kind # "none")

\* a directory tree holding the given files
RECURSIVE TreeOf(_)
TreeOf(files) ==
  IF files = <<>> THEN EmptyFs
  ELSE WriteFile(Mkdirp(TreeOf(Tail(files)), Parent(Head(files).path)),
                 Head(files).path, Head(files).text)

\* ----------------------------------------------------------------- upstream
Urls ==
  { sp.githubUrl : sp \in SpecUniverse }
  \cup { sp.schemaUrl : sp \in { x \in SpecUniverse : x.schemaUrl # <<>> } }

\* the document each URL serves when its request succeeds
DocOf(url) ==
  CASE url = delegationSpec.githubUrl ->
         <<"#", " ", "UCAN", " ", "Delegation", " ", "v", "1", ".", "0", ".",
           "0", "-", "rc", ".", "1", NL, NL,
           "#", "#", " ", "Editors", NL, NL, "-", " ", "Ed", NL, NL,
           "#", " ", "Abstract", NL, NL,
           "See", " ", "[", "UCAN", " ", "Promise", "]", "(", "https:", "/",
           "/", "github.com", "/", "ucan-wg", "/", "promise", ")", ".", NL>>
    [] url = delegationSpec.schemaUrl ->
         <<"type", " ", "Delegation", " ", "struct", NL>>
    [] url = promiseSpec.githubUrl ->
         <<"#", " ", "UCAN", " ", "Promise", NL, "#", "#", " ", "Version",
           " ", "0", ".", "2", NL, NL, "*", "Await", "*", NL, NL,
           "[", "dlg", "]", ":", " ", "https:", "/", "/", "github.com", "/",
           "ucan-wg", "/", "delegation", "#", "x", NL>>
    [] OTHER ->
         <<"go", "-", "ucan", NL, NL, "No", " ", "heading", ".", NL>>

Responses ==
  { [u \in Urls |-> [ok |-> b[u], text |-> IF b[u] THEN DocOf(u) ELSE <<>>]] :
      b \in [Urls -> BOOLEAN] }

\* ------------------------------------------------------------ initial trees
StaleText == <<"stale">>

InitTrees ==
  { EmptyFs,
    TreeOf(<< [path |-> GitKeep, text |-> <<>>] >>),
    TreeOf(<< [path |-> IndexPath(promiseSpec), text |-> StaleText],
              [path |-> SchemaPath(promiseSpec), text |-> StaleText],
              [path |-> IndexPath(goSpec), text |-> StaleText],
              [path |-> StaleFile, text |-> StaleText] >>),
    TreeOf(<< [path |-> GitKeep, text |-> <<>>],
              [path |-> IndexPath(delegationSpec), text |-> StaleText],
              [path |-> <<"guides", "getting-started.md">>, text |-> StaleText] >>) }

NoRun == [specs |-> <<>>, fs |-> EmptyFs, sidebar |-> NoNode, ok |-> FALSE]

Init ==
  /\ specs \in Configs
  /\ upstream \in Responses
  /\ fs \in InitTrees
  /\ sidebar = IF fs[<<>>].kind = "dir" THEN FileNode(StaleText) ELSE NoNode
  /\ pc = "clear"
  /\ idx = 1
  /\ items = <<>>
  /\ buf = <<>>
  /\ requested = [u \in Urls |-> 0]
  /\ faults = 0
  /\ run = 1
  /\ prev = NoRun
  /\ before = fs
  /\ dryRun = FALSE
  /\ result = <<>>

\* ------------------------------------------------------------------ actions
\* main's catch: process.exit(1)
Exit1 == pc' = "failed"

\* clearDocsDirectory, up to readdir
ClearBegin ==
  /\ pc = "clear"
  /\ IF fs[<<>>].kind = "dir"
     THEN pc' = "clearing" /\ items' = ReadDir(fs)
     ELSE pc' = "mkdir" /\ items' = <<>>
  /\ idx' = 1
  /\ UNCHANGED <<specs, upstream, fs, sidebar, buf, requested, faults, run,
                 prev, before, dryRun, result>>

\* ClearItem, were the loop to remove directories only
ClearItemDirsOnly ==
  /\ pc = "clearing"
  /\ items # <<>>
  /\ fs' = IF Head(items) = ".gitkeep" \/ fs[<<Head(items)>>].kind # "dir"
           THEN fs ELSE Remove(fs, <<Head(items)>>)
  /\ items' = Tail(items)
  /\ UNCHANGED <<specs, upstream, sidebar, pc, idx, buf, requested, faults,
                 run, prev, before, dryRun, result>>

\* one turn of the loop over the directory's items
ClearItem ==
  /\ pc = "clearing"
  /\ items # <<>>
  /\ fs' = IF Head(items) = ".gitkeep" THEN fs ELSE Remove(fs, <<Head(items)>>)
  /\ items' = Tail(items)
  /\ UNCHANGED <<specs, upstream, sidebar, pc, idx, buf, requested, faults,
                 run, prev, before, dryRun, result>>

\* clearDocsDirectory returns
ClearDone ==
  /\ pc = "clearing"
  /\ items = <<>>
  /\ pc' = "mkdir"
  /\ idx' = 1
  /\ UNCHANGED <<specs, upstream, fs, sidebar, items, buf, requested, faults,
                 run, prev, before, dryRun, result>>

\* the directory the first loop of processSpecs makes at idx: the one of
\* entry idx, then guides
DirAt(i) == IF i <= Len(specs) THEN specs[i].name ELSE GuidesDir

\* one turn of the first loop, started at one of the given places of main
MkdirFrom(places) ==
  /\ pc \in places
  /\ IF MkdirOk(fs, DirAt(idx))
     THEN /\ fs' = Mkdirp(fs, DirAt(idx))
          /\ faults' = faults
          /\ IF idx <= Len(specs)
             THEN pc' = "mkdir" /\ idx' = idx + 1
             ELSE /\ pc' = IF specs = <<>> THEN "sidebar" ELSE "fetch"
                  /\ idx' = 1
     ELSE /\ Exit1
          /\ faults' = faults + 1
          /\ UNCHANGED <<fs, idx>>
  /\ UNCHANGED <<specs, upstream, sidebar, items, buf, requested, run, prev,
                 before, dryRun, result>>

\* MkdirStep, were main not to await clearDocsDirectory
MkdirStepUnawaited == MkdirFrom({"clearing", "mkdir"})

\* processSpecs, first loop: the directory of entry idx, then guides
MkdirStep == MkdirFrom({"mkdir"})

\* where the second loop goes after entry idx
AfterEntry ==
  IF idx < Len(specs) THEN pc' = "fetch" /\ idx' = idx + 1
  ELSE pc' = "sidebar" /\ idx' = 1

\* CatchEntry, were the error thrown on to main
RethrowEntry == Exit1 /\ idx' = idx /\ buf' = <<>>

\* CatchEntry, were the entry written with the empty text
WriteEmptyEntry == pc' = "writeIndex" /\ idx' = idx /\ buf' = <<>>

\* CatchEntry, were the schema of the entry looked at all the same
CatchEntryThenSchema ==
  /\ IF specs[idx].schemaUrl # <<>> THEN pc' = "fetchSchema" /\ idx' = idx
     ELSE AfterEntry
  /\ buf' = <<>>

\* the entry's catch: the error is logged, the loop goes on
CatchEntry == AfterEntry /\ buf' = <<>>

\* CatchSchema, were the error thrown on to main
RethrowSchema == Exit1 /\ idx' = idx /\ buf' = <<>>

\* the schema's catch: a warning is logged, the entry is done
CatchSchema == AfterEntry /\ buf' = <<>>

\* fetchFromGitHub, were it to ask a second time after a failure
fetchWithRetry(url) ==
  requested' = [requested EXCEPT ![url] = @ + (IF upstream[url].ok THEN 1 ELSE 2)]

\* fetchFromGitHub(url): one request; what it answers is upstream[url]
fetchFromGitHub(url) == requested' = [requested EXCEPT ![url] = @ + 1]

\* fetchFromGitHub(spec.githubUrl); a failure is caught at the entry's catch
FetchPrimary ==
  /\ pc = "fetch"
  /\ fetchFromGitHub(specs[idx].githubUrl)
  /\ IF upstream[specs[idx].githubUrl].ok
     THEN /\ pc' = "writeIndex"
          /\ buf' = upstream[specs[idx].githubUrl].text
          /\ idx' = idx
     ELSE CatchEntry
  /\ UNCHANGED <<specs, upstream, fs, sidebar, items, faults, run, prev,
                 before, dryRun, result>>

\* AfterIndex, were the schema never looked at
AfterIndexNoSchema == AfterEntry

\* if (spec.schemaUrl): the schema of the entry is next, or the next entry
AfterIndex ==
  IF specs[idx].schemaUrl # <<>> THEN pc' = "fetchSchema" /\ idx' = idx
  ELSE AfterEntry

\* processMarkdown and fs.writeFile(targetPath, processedContent); a failure
\* is caught at the entry's catch
WriteIndex ==
  /\ pc = "writeIndex"
  /\ IF WriteOk(fs, IndexPath(specs[idx]))
     THEN /\ fs' = WriteFile(fs, IndexPath(specs[idx]),
                             processMarkdown(buf, specs[idx].title,
                                             specs[idx].githubUrl))
          /\ faults' = faults
          /\ AfterIndex
          /\ buf' = <<>>
     ELSE /\ fs' = fs
          /\ faults' = faults + 1
          /\ CatchEntry
  /\ UNCHANGED <<specs, upstream, sidebar, items, requested, run, prev,
                 before, dryRun, result>>

\* fetchFromGitHub(spec.schemaUrl); a failure is caught at the schema's catch
FetchSchema ==
  /\ pc = "fetchSchema"
  /\ fetchFromGitHub(specs[idx].schemaUrl)
  /\ IF upstream[specs[idx].schemaUrl].ok
     THEN /\ pc' = "writeSchema"
          /\ buf' = upstream[specs[idx].schemaUrl].text
          /\ idx' = idx
     ELSE CatchSchema
  /\ UNCHANGED <<specs, upstream, fs, sidebar, items, faults, run, prev,
                 before, dryRun, result>>

\* processIPLDSchema and fs.writeFile(schemaTargetPath, processedSchema); a
\* failure is caught at the schema's catch
WriteSchema ==
  /\ pc = "writeSchema"
  /\ IF WriteOk(fs, SchemaPath(specs[idx]))
     THEN /\ fs' = WriteFile(fs, SchemaPath(specs[idx]),
                             processIPLDSchema(buf, specs[idx].title))
          /\ faults' = faults
     ELSE fs' = fs /\ faults' = faults + 1
  /\ CatchSchema
  /\ UNCHANGED <<specs, upstream, sidebar, items, requested, run, prev,
                 before, dryRun, result>>

\* the slug of the page of an entry
SlugOf(sp) ==
  CASE sp = delegationSpec -> "delegation"
    [] sp = promiseSpec    -> "promise"
    [] sp = goSpec         -> "libraries/go"

\* the text of sidebar-config.json: JSON.stringify(config, null, 2) of the
\* configured tree
SidebarJson == JSONStringify(sidebarConfig)

\* GenerateSidebar, were the tree pruned to the pages the run wrote
GenerateSidebarFetched ==
  /\ pc = "sidebar"
  /\ sidebar' = FileNode(JSONStringify(
       [ sidebar |->
           [ g \in 1..Len(sidebarConfig.sidebar) |->
               IF "items" \in DOMAIN sidebarConfig.sidebar[g]
               THEN [ sidebarConfig.sidebar[g] EXCEPT !.items =
                        SelectSeq(@, LAMBDA it :
                          \A sp \in SpecUniverse :
                            SlugOf(sp) = it.slug =>
                              fs[IndexPath(sp)].kind = "file") ]
               ELSE sidebarConfig.sidebar[g] ] ]))
  /\ pc' = "templates"
  /\ idx' = 1
  /\ UNCHANGED <<specs, upstream, fs, items, buf, requested, faults, run,
                 prev, before, dryRun, result>>

\* GenerateSidebar, were a run that wrote no index.md to fail
GenerateSidebarOrFail ==
  /\ pc = "sidebar"
  /\ IF specs # <<>> /\ \A i \in 1..Len(specs) : fs[IndexPath(specs[i])].kind # "file"
     THEN Exit1 /\ sidebar' = sidebar
     ELSE pc' = "templates" /\ sidebar' = FileNode(SidebarJson)
  /\ idx' = 1
  /\ UNCHANGED <<specs, upstream, fs, items, buf, requested, faults, run,
                 prev, before, dryRun, result>>

\* generateSidebarConfig
GenerateSidebar ==
  /\ pc = "sidebar"
  /\ sidebar' = FileNode(SidebarJson)
  /\ pc' = "templates"
  /\ idx' = 1
  /\ UNCHANGED <<specs, upstream, fs, items, buf, requested, faults, run,
                 prev, before, dryRun, result>>

\* what step idx of the template copy needs of the directory
TemplateOk(step) ==
  IF step.op = "mkdir" THEN MkdirOk(fs, step.path) ELSE WriteOk(fs, step.path)

\* createTemplateContent: one entry of the template tree
CopyTemplate ==
  /\ pc = "templates"
  /\ IF TemplateOk(TemplateSteps[idx])
     THEN /\ fs' = IF TemplateSteps[idx].op = "mkdir"
                   THEN Mkdirp(fs, TemplateSteps[idx].path)
                   ELSE WriteFile(fs, TemplateSteps[idx].path,
                                  TemplateText(TemplateSteps[idx].path))
          /\ faults' = faults
          /\ IF idx < Len(TemplateSteps)
             THEN pc' = "templates" /\ idx' = idx + 1
             ELSE pc' = "done" /\ idx' = 1
     ELSE Exit1 /\ faults' = faults + 1 /\ UNCHANGED <<fs, idx>>
  /\ UNCHANGED <<specs, upstream, sidebar, items, buf, requested, run, prev,
                 before, dryRun, result>>

Step ==
  \/ ClearBegin
  \/ ClearItem
  \/ ClearDone
  \/ MkdirStep
  \/ FetchPrimary
  \/ WriteIndex
  \/ FetchSchema
  \/ WriteSchema
  \/ GenerateSidebar
  \/ CopyTemplate

\* ------------------------------------------------------- filesystem failures
\* a filesystem call of clearDocsDirectory, of the mkdir loop, of
\* generateSidebarConfig or of createTemplateContent throws: nothing catches
\* it before main does
FsFaultFatal ==
  /\ faults < MaxFsFaults
  /\ \/ pc = "clear" /\ fs[<<>>].kind = "dir"
     \/ pc = "clearing" /\ items # <<>> /\ Head(items) # ".gitkeep"
     \/ pc \in {"mkdir", "sidebar", "templates"}
  /\ faults' = faults + 1
  /\ Exit1
  /\ UNCHANGED <<specs, upstream, fs, sidebar, idx, items, buf, requested,
                 run, prev, before, dryRun, result>>

\* fs.writeFile of index.md throws, leaving the file as it was or truncated;
\* the entry's catch logs it
FsFaultIndex ==
  /\ faults < MaxFsFaults
  /\ pc = "writeIndex"
  /\ faults' = faults + 1
  /\ \/ fs' = fs
     \/ fs' = WriteFile(fs, IndexPath(specs[idx]), <<>>)
  /\ CatchEntry
  /\ UNCHANGED <<specs, upstream, sidebar, items, requested, run, prev,
                 before, dryRun, result>>

\* fs.writeFile of schema.md throws; the schema's catch logs it
FsFaultSchema ==
  /\ faults < MaxFsFaults
  /\ pc = "writeSchema"
  /\ faults' = faults + 1
  /\ \/ fs' = fs
     \/ fs' = WriteFile(fs, SchemaPath(specs[idx]), <<>>)
  /\ CatchSchema
  /\ UNCHANGED <<specs, upstream, sidebar, items, requested, run, prev,
                 before, dryRun, result>>

Next == Step \/ FsFaultFatal \/ FsFaultIndex \/ FsFaultSchema

\* one run of the script, in which filesystem calls may throw
Spec == Init /\ [][Next]_vars

\* ------------------------------------------------------------------- reruns
\* what may happen to the docs directory between two runs
Tampered(f) ==
  {f, Remove(f, GitKeep)}
  \cup (IF f[<<>>].kind = "dir"
        THEN {WriteFile(f, GitKeep, <<"keep">>), WriteFile(f, StaleFile, StaleText)}
        ELSE {})

\* the script is started again, possibly under another configuration
NewRun ==
  /\ pc \in {"done", "failed"}
  /\ run < MaxRuns
  /\ prev' = [specs |-> specs, fs |-> fs, sidebar |-> sidebar,
              ok |-> pc = "done" /\ faults = 0]
  /\ specs' \in Configs
  /\ fs' \in Tampered(fs)
  /\ before' = fs'
  /\ run' = run + 1
  /\ pc' = "clear"
  /\ idx' = 1
  /\ items' = <<>>
  /\ buf' = <<>>
  /\ requested' = [u \in Urls |-> 0]
  /\ UNCHANGED <<upstream, sidebar, faults, dryRun, result>>

NextRerun == Step \/ NewRun

\* consecutive runs against the same upstream, without filesystem failures
SpecRerun == Init /\ [][NextRerun]_vars

\* --------------------------------------------------------------- properties
\* the entries of the current configuration
Configured == { specs[i] : i \in 1..Len(specs) }

\* the fetch of the URL was made in this run and failed
FetchFailed(url) == requested[url] > 0 /\ ~upstream[url].ok

\* what the run writes to <name>/index.md from what upstream answers
ExpectedIndex(sp) ==
  IF upstream[sp.githubUrl].ok
  THEN FileNode(processMarkdown(upstream[sp.githubUrl].text, sp.title, sp.githubUrl))
  ELSE NoNode

\* an entry whose schema the run fetches and gets
SchemaFetched(sp) ==
  /\ upstream[sp.githubUrl].ok
  /\ sp.schemaUrl # <<>>
  /\ upstream[sp.schemaUrl].ok

\* what the run writes to <name>/schema.md from what upstream answers
ExpectedSchema(sp) ==
  IF SchemaFetched(sp)
  THEN FileNode(processIPLDSchema(upstream[sp.schemaUrl].text, sp.title))
  ELSE NoNode

\* a step that creates a directory or writes a file, the manifest included
IsWrite ==
  \/ \E p \in Paths : fs'[p] # fs[p] /\ fs'[p].kind # "none"
  \/ sidebar' # sidebar

\* C1: when clearDocsDirectory has returned, the docs directory holds nothing
\* but the top-level .gitkeep, which is as the run found it; and when a run
\* ends, an entry that is not configured has no index.md and no schema.md,
\* whatever earlier runs wrote there.
C1_CleanSlate ==
  /\ (pc = "mkdir" /\ idx = 1) =>
       /\ \A p \in Paths \ {<<>>, GitKeep} : fs[p] = NoNode
       /\ fs[GitKeep] = before[GitKeep]
       /\ fs[<<>>] = before[<<>>]
  /\ pc = "done" =>
       \A sp \in SpecUniverse \ Configured :
         fs[IndexPath(sp)] = NoNode /\ fs[SchemaPath(sp)] = NoNode

\* a second run has ended without promise, which the first run had written
\* and the second run found in place
C1_Witness ==
  /\ pc = "done"
  /\ run = 2
  /\ promiseSpec \notin Configured
  /\ prev.fs[IndexPath(promiseSpec)] = ExpectedIndex(promiseSpec)
  /\ before[IndexPath(promiseSpec)].kind = "file"
  /\ before[GitKeep].kind = "file"

\* C2: no step creates a directory or writes a file, in the docs directory or
\* beside it, before clearDocsDirectory has returned.
C2_ClearBeforeWrites == [][IsWrite => pc \notin {"clear", "clearing"}]_vars

\* the first directory has been made after a clear that had a stale tree to
\* remove
C2_Witness ==
  /\ pc = "mkdir"
  /\ idx = 2
  /\ before[StaleFile].kind = "file"
  /\ before[IndexPath(promiseSpec)].kind = "file"
  /\ fs[StaleFile] = NoNode
  /\ fs[specs[1].name].kind = "dir"

\* C3: a failed fetch of an entry's document does not end the run, and when
\* the run ends every entry after it has been requested and has the index.md
\* and schema.md that its own responses give.
C3_FailureIsolation ==
  /\ faults = 0 => pc # "failed"
  /\ (pc = "done" /\ faults = 0) =>
       \A i \in 1..Len(specs) : \A j \in (i + 1)..Len(specs) :
         FetchFailed(specs[i].githubUrl) =>
           /\ requested[specs[j].githubUrl] = 1
           /\ fs[IndexPath(specs[j])] = ExpectedIndex(specs[j])
           /\ fs[SchemaPath(specs[j])] = ExpectedSchema(specs[j])

\* the run has ended, the first entry's fetch failed, the second entry has
\* its index.md and its schema.md
C3_Witness ==
  /\ pc = "done"
  /\ faults = 0
  /\ Len(specs) = 2
  /\ FetchFailed(specs[1].githubUrl)
  /\ fs[IndexPath(specs[2])].kind = "file"
  /\ fs[SchemaPath(specs[2])].kind = "file"

\* C4: once the fetch of an entry's document has failed, the entry has no
\* index.md and no schema.md, in any state of the run.
C4_NoOutputOnFailure ==
  \A sp \in Configured :
    FetchFailed(sp.githubUrl) =>
      fs[IndexPath(sp)] = NoNode /\ fs[SchemaPath(sp)] = NoNode

\* the run has ended; the fetch of delegation failed, and the run had found
\* an index.md of delegation in place
C4_Witness ==
  /\ pc = "done"
  /\ delegationSpec \in Configured
  /\ FetchFailed(delegationSpec.githubUrl)
  /\ before[IndexPath(delegationSpec)].kind = "file"

\* C5: once the fetch of an entry's schema has failed, the entry has its
\* whole index.md and no schema.md, the run has not failed unless a
\* filesystem call threw, and when the run ends the entries after it have been
\* requested.
C5_SchemaFailure ==
  \A i \in 1..Len(specs) :
    (specs[i].schemaUrl # <<>> /\ FetchFailed(specs[i].schemaUrl)) =>
      /\ fs[IndexPath(specs[i])] = ExpectedIndex(specs[i])
      /\ fs[IndexPath(specs[i])].kind = "file"
      /\ fs[SchemaPath(specs[i])] = NoNode
      /\ faults = 0 => pc # "failed"
      /\ pc = "done" => \A j \in (i + 1)..Len(specs) :
                          requested[specs[j].githubUrl] = 1

\* the run has ended; the schema of the first entry failed, the entry after
\* it was fetched and written
C5_Witness ==
  /\ pc = "done"
  /\ faults = 0
  /\ Len(specs) = 2
  /\ specs[1].schemaUrl # <<>>
  /\ FetchFailed(specs[1].schemaUrl)
  /\ fs[IndexPath(specs[1])].kind = "file"
  /\ fs[IndexPath(specs[2])].kind = "file"

\* C6: a step in which a filesystem call throws ends the run with the failure
\* exit.
C6_FsFailureFatal == [][faults' > faults => pc' = "failed"]_vars

\* C7: when a run ends in which no filesystem call threw, every entry whose
\* document was fetched has the index.md that processMarkdown makes of the
\* fetched text, and has a schema.md exactly when it has a schemaUrl whose
\* fetch succeeded, holding what processIPLDSchema makes of that text.
C7_OutputLayout ==
  (pc = "done" /\ faults = 0) =>
    \A sp \in Configured :
      upstream[sp.githubUrl].ok =>
        /\ fs[IndexPath(sp)] =
             FileNode(processMarkdown(upstream[sp.githubUrl].text, sp.title,
                                      sp.githubUrl))
        /\ fs[SchemaPath(sp)].kind = "file" <=> SchemaFetched(sp)
        /\ SchemaFetched(sp) =>
             fs[SchemaPath(sp)].data =
               processIPLDSchema(upstream[sp.schemaUrl].text, sp.title)

\* a run has ended with delegation and its schema written and with an entry
\* without schemaUrl written
C7_Witness ==
  /\ pc = "done"
  /\ faults = 0
  /\ specs = <<delegationSpec, promiseSpec>>
  /\ SchemaFetched(delegationSpec)
  /\ fs[SchemaPath(delegationSpec)].kind = "file"
  /\ fs[IndexPath(promiseSpec)].kind = "file"

\* a run has ended after a complete run of the same configuration
Repeated == pc = "done" /\ run > 1 /\ prev.ok /\ prev.specs = specs

\* C8: two complete runs of one configuration leave the same manifest and
\* the same docs directory but for the top-level .gitkeep, which each run
\* leaves as it found it.
C8_Determinism ==
  /\ Repeated =>
       /\ sidebar = prev.sidebar
       /\ \A p \in Paths \ {GitKeep} : fs[p] = prev.fs[p]
  /\ pc = "done" => fs[GitKeep] = before[GitKeep]

\* the second run of a configuration has ended, in a directory that was
\* changed after the first run
C8_Witness ==
  /\ Repeated
  /\ specs # <<>>
  /\ before # prev.fs
  /\ before[StaleFile].kind = "file"
  /\ \E sp \in Configured : fs[IndexPath(sp)].kind = "file"

\* C8 as stated: two complete runs of one configuration leave the same docs
\* directory and the same manifest, whatever the directory held before.
C8_AsStated == Repeated => fs = prev.fs /\ sidebar = prev.sidebar

C10_NoRetry == \A u \in Urls : requested[u] <= 1

\* the run has ended; a document and a schema were requested once and failed
C10_Witness ==
  /\ pc = "done"
  /\ \E sp \in Configured : FetchFailed(sp.githubUrl) /\ requested[sp.githubUrl] = 1
  /\ \E sp \in Configured :
       /\ sp.schemaUrl # <<>>
       /\ FetchFailed(sp.schemaUrl)
       /\ requested[sp.schemaUrl] = 1

\* -------------------------------------------------------------- paired runs
\* a run in the empty directory
InitPair == Init /\ fs = EmptyFs

\* the configurations that hold the entries of c, in any order
Reordered(c) ==
  { d \in Configs : { d[i] : i \in 1..Len(d) } = { c[i] : i \in 1..Len(c) } }

\* the script is started again with the same entries in any order, while
\* upstream answers anything
NewRunReordered ==
  /\ pc = "done"
  /\ run = 1
  /\ prev' = [specs |-> specs, fs |-> fs, sidebar |-> sidebar,
              ok |-> faults = 0, upstream |-> upstream]
  /\ specs' \in Reordered(specs)
  /\ upstream' \in Responses
  /\ before' = fs
  /\ run' = run + 1
  /\ pc' = "clear"
  /\ idx' = 1
  /\ items' = <<>>
  /\ buf' = <<>>
  /\ requested' = [u \in Urls |-> 0]
  /\ UNCHANGED <<fs, sidebar, faults, dryRun, result>>

NextPair == Step \/ NewRunReordered

\* two runs over the same entries, against any two upstreams
SpecPair == InitPair /\ [][NextPair]_vars

\* C11: of two complete runs over the same entries, in any order and whatever
\* the fetches of the other entries answer, an entry whose own fetch answers
\* the same in both has the same index.md in both.
C11_EntryIndependence ==
  (pc = "done" /\ run = 2 /\ prev.ok) =>
    \A sp \in Configured :
      upstream[sp.githubUrl] = prev.upstream[sp.githubUrl] =>
        fs[IndexPath(sp)] = prev.fs[IndexPath(sp)]

\* delegation, whose document links to promise, was written first in a run
\* in which the fetch of promise succeeded and second in a run in which it
\* failed
C11_Witness ==
  /\ pc = "done"
  /\ run = 2
  /\ prev.ok
  /\ prev.specs = <<delegationSpec, promiseSpec>>
  /\ specs = <<promiseSpec, delegationSpec>>
  /\ prev.upstream[promiseSpec.githubUrl].ok
  /\ FetchFailed(promiseSpec.githubUrl)
  /\ fs[IndexPath(delegationSpec)].kind = "file"
  /\ fs[IndexPath(delegationSpec)] = prev.fs[IndexPath(delegationSpec)]

\* ----------------------------------------------------------- content review
\* the review script: every markdown file of the content directory is checked
\* and, unless --dry-run is given, fixed in place

\* some position of s starts a match of the pattern EndAt describes
HasMatch(s, EndAt(_, _)) == \E j \in 1..Len(s) : EndAt(s, j) > 0

\* /(\[([^\]]+)\]\(([^)]+)\))\s*\1/ at i: the position after the match, 0 when
\* it does not match
DuplicateEnd(s, i) ==
  With(InlineLinkAt(s, i).end, LAMBDA e :
  With(IF e > 0 THEN RunEnd(s, e, IsSpace) ELSE 0, LAMBDA w :
    IF e > 0 /\ MatchAt(s, w, Slice(s, i, e - 1)) THEN w + (e - i) ELSE 0))

\* content.replace(duplicatePattern, '$1')
RemoveDuplicates(s) ==
  ReplaceAll(s, DuplicateEnd,
             LAMBDA t, i : Slice(t, i, InlineLinkAt(t, i).end - 1))

IsHash(t) == t = "#"

\* /^(#{1,6})([^\s#])/m at i: the position of the character after the "#"s,
\* 0 when it does not match
BadHeaderAt(s, i) ==
  With(RunEnd(s, i, IsHash), LAMBDA h :
    IF /\ AtLineStart(s, i)
       /\ h - i >= 1
       /\ h - i <= 6
       /\ h <= Len(s)
       /\ s[h] \notin Whitespace
    THEN h ELSE 0)

\* content.replace(badHeaderPattern, '$1 $2')
FixHeaders(s) ==
  ReplaceAll(s,
    LAMBDA t, i : IF BadHeaderAt(t, i) > 0 THEN BadHeaderAt(t, i) + 1 ELSE 0,
    LAMBDA t, i : Slice(t, i, BadHeaderAt(t, i) - 1) \o <<" ">>
                  \o <<t[BadHeaderAt(t, i)]>>)

\* Variants, were the check to look for the URL as the mapping gives it only
VariantsAsGiven(m) == {m.from}

\* the URL of a mapping without and with a trailing slash
Variants(m) == {m.from, m.from \o <<"/">>}

\* the findings of checkUCANLinkIssues: the kinds and URLs that have matches
checkUCANLinkIssues(content) ==
  { f \in { [kind |-> k, url |-> u] :
              k \in {"links", "reference definitions"},
              u \in UNION { Variants(URL_MAPPINGS[n]) : n \in 1..Len(URL_MAPPINGS) } } :
      IF f.kind = "links"
      THEN HasMatch(content, LAMBDA t, i : LinkTo(t, i, f.url).end)
      ELSE HasMatch(content, LAMBDA t, i : RefTo(t, i, f.url).end) }

IsBlank(t) == t \in {" ", "\t"}
IsNewline(t) == t = NL

\* /[ \t]+$/m at i: the position after the match, 0 when it does not match
TrailingEnd(s, i) ==
  With(RunEnd(s, i, IsBlank), LAMBDA r :
    IF IsBlank(s[i]) /\ (r > Len(s) \/ s[r] = NL) THEN r ELSE 0)

\* /\n{3,}/ at i
NewlinesEnd(s, i) ==
  With(RunEnd(s, i, IsNewline), LAMBDA r : IF r - i >= 3 THEN r ELSE 0)

\* content.replace(/[ \t]+$/gm, '').replace(/\n{3,}/g, '\n\n')
CleanWhitespace(s) ==
  ReplaceAll(ReplaceAll(s, TrailingEnd, LAMBDA t, i : <<>>),
             NewlinesEnd, LAMBDA t, i : <<NL, NL>>)

\* the four checks of processFile in their order, each followed by its fix
\* when fixing is TRUE: the content after them, what was found, and whether
\* fs.writeFile is called
Checked(original, fixing) ==
  With(HasMatch(original, DuplicateEnd), LAMBDA dup :
  With(IF dup /\ fixing THEN RemoveDuplicates(original) ELSE original, LAMBDA c1 :
  With(HasMatch(c1, LAMBDA t, i : BadHeaderAt(t, i)), LAMBDA hdr :
  With(IF hdr /\ fixing THEN FixHeaders(c1) ELSE c1, LAMBDA c2 :
  With(checkUCANLinkIssues(c2), LAMBDA links :
  With(IF links # {} /\ fixing THEN standardizeUCANLinks(c2, URL_MAPPINGS)
       ELSE c2, LAMBDA c3 :
  With(HasMatch(c3, TrailingEnd) \/ HasMatch(c3, NewlinesEnd), LAMBDA ws :
  With(IF ws /\ fixing THEN CleanWhitespace(c3) ELSE c3, LAMBDA c4 :
    [ content |-> c4,
      issues  |-> (IF dup THEN {"duplicate links"} ELSE {})
                  \cup (IF hdr THEN {"headers missing spaces"} ELSE {})
                  \cup { f.kind : f \in links }
                  \cup (IF ws THEN {"whitespace cleanup needed"} ELSE {}),
      written |-> fixing /\ c4 # original,
      changed |-> c4 # original ]))))))))

\* processFile, were the fixes applied whatever the flag
processFileAlwaysFix(original, dry) == Checked(original, TRUE)

\* processFile, were the file written after every fixing pass
processFileAlwaysWrite(original, dry) ==
  [Checked(original, ~dry) EXCEPT !.written = ~dry]

\* processFile(filePath, dryRun) on a file holding original
processFile(original, dry) == Checked(original, ~dry)

\* the markdown files of the content directory in the order readdir and the
\* recursion give them
MarkdownOrder ==
  << <<"delegation", "index.md">>, <<"delegation", "schema.md">>,
     <<"examples.md">>, <<"getting-started.md">>,
     <<"guides", "getting-started.md">>,
     <<"libraries", "go", "index.md">>, <<"libraries", "go", "schema.md">>,
     <<"libraries", "implementation.md">>,
     <<"promise", "index.md">>, <<"promise", "schema.md">>, <<"stale.md">> >>

findMarkdownFiles(f) == SelectSeq(MarkdownOrder, LAMBDA p : f[p].kind = "file")

GithubDelegation ==
  <<"https:", "/", "/", "github.com", "/", "ucan-wg", "/", "delegation">>

LinkA == <<"[", "a", "]", "(", "u", ")">>

\* what the files under review hold
ReviewDocs ==
  { <<"#", " ", "Title", NL, NL, "Text", ".", NL>>,
    LinkA \o LinkA \o <<NL>>,
    LinkA \o <<" ">> \o LinkA \o <<NL>> \o LinkA \o <<NL>>,
    <<"See", " ">> \o LinkA \o LinkA \o LinkA \o LinkA \o <<".", NL>>,
    <<"#", "#", "Header", NL, "Text", NL>>,
    <<"#", "#", "#", "#", "#", "#", "#", "Seven", NL>>,
    <<"[", "D", "]", "(">> \o GithubDelegation \o <<"#", "x", ")", NL>>,
    <<"[", "d", "]", ":", " ">> \o GithubDelegation \o <<"/", NL, NL, NL, "End", NL>>,
    <<"Text", " ", "\t", NL, NL, NL, NL, "#", "Header", " ", NL>>,
    <<"#", "x", " ", NL, " ", NL, " ", NL>> \o LinkA \o <<NL, NL, NL>> \o LinkA }

\* the content directory before a review
ReviewTrees ==
  { TreeOf(<< [path |-> GitKeep, text |-> <<>>],
              [path |-> IndexPath(delegationSpec), text |-> d1],
              [path |-> <<"examples.md">>, text |-> d2] >>) :
      d1 \in ReviewDocs, d2 \in ReviewDocs }

InitReview ==
  /\ specs = <<delegationSpec, promiseSpec>>
  /\ upstream \in { r \in Responses : \A u \in Urls : r[u].ok }
  /\ fs \in ReviewTrees
  /\ sidebar = FileNode(JSONStringify(sidebarConfig))
  /\ pc = "review"
  /\ idx = 1
  /\ items = <<>>
  /\ buf = <<>>
  /\ requested = [u \in Urls |-> 0]
  /\ faults = 0
  /\ run = 1
  /\ prev = NoRun
  /\ before = fs
  /\ dryRun \in BOOLEAN
  /\ result = <<>>

\* main: findMarkdownFiles(contentDir)
FindFiles ==
  /\ pc = "review"
  /\ items' = findMarkdownFiles(fs)
  /\ pc' = "file"
  /\ UNCHANGED <<specs, upstream, fs, sidebar, idx, buf, requested, faults,
                 run, prev, before, dryRun, result>>

\* main's loop: processFile(file, dryRun) on the next file; the file is
\* written when the run is no dry run and the content has changed
ReviewFile ==
  /\ pc = "file"
  /\ items # <<>>
  /\ result' = processFile(fs[Head(items)].data, dryRun)
  /\ fs' = IF result'.written
           THEN WriteFile(fs, Head(items), result'.content) ELSE fs
  /\ items' = Tail(items)
  /\ UNCHANGED <<specs, upstream, sidebar, pc, idx, buf, requested, faults,
                 run, prev, before, dryRun>>

\* main's summary
ReviewDone ==
  /\ pc = "file"
  /\ items = <<>>
  /\ pc' = "reviewed"
  /\ UNCHANGED <<specs, upstream, fs, sidebar, idx, items, buf, requested,
                 faults, run, prev, before, dryRun, result>>

\* the script is started again, with or without --dry-run
ReviewAgain ==
  /\ pc = "reviewed"
  /\ run < MaxRuns
  /\ prev' = [specs |-> specs, fs |-> fs, sidebar |-> sidebar, ok |-> TRUE,
              dryRun |-> dryRun]
  /\ before' = fs
  /\ run' = run + 1
  /\ dryRun' \in BOOLEAN
  /\ result' = <<>>
  /\ pc' = "review"
  /\ UNCHANGED <<specs, upstream, fs, sidebar, idx, items, buf, requested,
                 faults>>

NextReview == FindFiles \/ ReviewFile \/ ReviewDone \/ ReviewAgain

\* reviews of the content directory, one after the other
SpecReview == InitReview /\ [][NextReview]_vars

\* a fixing run that follows a fixing run
SecondFix == run > 1 /\ ~dryRun /\ ~prev.dryRun

\* C12: a fixing run that follows a fixing run changes no file, and every
\* processFile of it returns changed = false.
C12_FixIdempotent ==
  SecondFix => fs = before /\ (result # <<>> => ~result.changed)

\* C13: in a dry run no file of the content directory differs from what the
\* run found, and every processFile returns changed = false.
C13_DryRunFrame ==
  dryRun => fs = before /\ (result # <<>> => ~result.changed)

\* a dry run has ended whose last file had duplicate links, a header without
\* space and blank line ends, and which found the files fixable by a fix run
C13_Witness ==
  /\ dryRun
  /\ pc = "reviewed"
  /\ result # <<>>
  /\ {"duplicate links", "headers missing spaces", "whitespace cleanup needed"}
       \subseteq result.issues
  /\ fs = before
  /\ \E p \in Paths : fs[p].kind = "file"
                      /\ "links" \in processFile(fs[p].data, TRUE).issues
  /\ \E p \in Paths : fs[p].kind = "file" /\ processFile(fs[p].data, FALSE).changed

\* ------------------------------------------------- standardizeUCANLinks alone
\* longest sequence of links in a document under study
MaxLinks == 2

\* the repository URL of an entry as text
RepoUrlOf(sp) == UrlTokens(convertRawUrlToRepoUrl(sp.githubUrl))

GitlabDelegation ==
  <<"https:", "/", "/", "gitlab.com", "/", "ucan-wg", "/", "delegation">>

\* what follows the repository URL in a target: nothing, a slash, a deeper
\* path, the rest of a longer repository name
ExactTails == {<<>>, <<"/">>}
Tails == ExactTails \cup {<<"/", "blob", "/", "main">>, <<"-", "x">>}

\* inline links [text](target) and reference definitions [label]: target
LinksOf(form, bases, tails, frags) ==
  { [form |-> form, label |-> <<"UCAN", " ", "Delegation">>,
     base |-> b, tail |-> t, frag |-> f] :
      b \in bases, t \in tails, f \in frags }

AllLinks(form) ==
  LinksOf(form, {RepoUrlOf(delegationSpec), RepoUrlOf(goSpec), GitlabDelegation},
          Tails, {<<>>, <<"#", "frag">>})

\* the links that documents of several links are made of
ProbeLinks(form) ==
  LinksOf(form, {RepoUrlOf(delegationSpec)}, {<<>>, <<"/", "blob", "/", "main">>},
          {<<>>})
  \cup LinksOf(form, {RepoUrlOf(delegationSpec)}, {<<"/">>, <<"-", "x">>},
               {<<"#", "frag">>})

\* the documents under study: text, links of one form with a separator
\* between them, text; a reference definition always has a line of its own
LinkCases ==
  { [pre |-> p, links |-> ls, sep |-> sp, post |-> q] :
      p \in {<<>>, <<"See", " ">>}, sp \in {<<" ">>, <<NL>>},
      q \in {<<>>, <<".", NL>>, <<" ", "x", NL>>},
      ls \in { <<l>> : l \in AllLinks("inline") }
             \cup UNION { [1..n -> ProbeLinks("inline")] : n \in 2..MaxLinks } }
  \cup
  { [pre |-> p, links |-> ls, sep |-> sp, post |-> q] :
      p \in {<<>>, <<"Intro", NL, NL>>}, sp \in {<<NL>>, <<NL, NL>>},
      q \in {<<>>, <<NL>>, <<" ", NL, NL, "End", NL>>},
      ls \in { <<l>> : l \in AllLinks("ref") }
             \cup UNION { [1..n -> ProbeLinks("ref")] : n \in 2..MaxLinks } }

Target(l) == l.base \o l.tail \o l.frag

RenderLink(l) ==
  IF l.form = "inline"
  THEN <<"[">> \o l.label \o <<"]", "(">> \o Target(l) \o <<")">>
  ELSE <<"[">> \o l.label \o <<"]", ":", " ">> \o Target(l)

Render(c) ==
  c.pre \o JoinWith([i \in 1..Len(c.links) |-> RenderLink(c.links[i])], c.sep)
  \o c.post

LinkDocs == { Render(c) : c \in LinkCases }

\* the cases a document is the text of
CasesOf == [d \in LinkDocs |-> { c \in LinkCases : Render(c) = d }]

\* the mappings of the repository the link names
MappingsFor(l, ms) == { k \in 1..Len(ms) : ms[k].from = l.base }

\* the target is a mapped repository URL, but for a trailing slash and a
\* fragment
IsExact(l, ms) == l.tail \in ExactTails /\ MappingsFor(l, ms) # {}

\* the link with the local path for the repository URL and its slash
Rewritten(l, ms) ==
  With(ms[Least(MappingsFor(l, ms))].to, LAMBDA to :
    IF l.form = "inline"
    THEN <<"[">> \o l.label \o <<"]", "(">> \o to \o l.frag \o <<")">>
    ELSE <<"[">> \o l.label \o <<"]", ":", " ">> \o to \o l.frag)

\* t from the last line break of the blank run it starts with; nothing when
\* t is blank and the document ends with it
FromLastBreak(t, atEnd) ==
  With(RunEnd(t, 1, IsSpace), LAMBDA r :
  With({ q \in 1..(r - 1) : t[q] = NL }, LAMBDA nls :
    IF atEnd /\ r > Len(t) THEN <<>>
    ELSE IF nls = {} THEN t
    ELSE Slice(t, Greatest(nls), Len(t))))

\* what the document of a case is to become under the mappings ms: every
\* exact link rewritten, everything else as it is, but for the blank run
\* after a rewritten reference definition
Expected(c, ms) ==
  c.pre
  \o JoinWith(
       [i \in 1..Len(c.links) |->
          With(IF i < Len(c.links) THEN c.sep ELSE c.post, LAMBDA after :
            IF ~IsExact(c.links[i], ms) THEN RenderLink(c.links[i]) \o after
            ELSE IF c.links[i].form = "inline"
                 THEN Rewritten(c.links[i], ms) \o after
            ELSE Rewritten(c.links[i], ms)
                 \o FromLastBreak(after, i = Len(c.links)))],
       <<>>)

\* every variable the function under study does not read
AtRest ==
  /\ upstream \in { r \in Responses : \A u \in Urls : r[u].ok }
  /\ fs = EmptyFs
  /\ sidebar = NoNode
  /\ idx = 1
  /\ items = <<>>
  /\ requested = [u \in Urls |-> 0]
  /\ faults = 0
  /\ run = 1
  /\ prev = NoRun
  /\ before = EmptyFs
  /\ dryRun = FALSE
  /\ result = <<>>

InitLinks ==
  /\ specs \in Configs
  /\ buf \in LinkDocs
  /\ pc = "standardize"
  /\ AtRest

\* standardizeUCANLinks(content) with the mappings of the configuration
Standardize ==
  /\ pc = "standardize"
  /\ result' = standardizeUCANLinks(buf, URL_MAPPINGS)
  /\ pc' = "standardized"
  /\ UNCHANGED <<specs, upstream, fs, sidebar, idx, items, buf, requested,
                 faults, run, prev, before, dryRun>>

SpecLinks == InitLinks /\ [][Standardize]_vars

\* s occurs in t
Occurs(s, t) == \E i \in 1..(Len(t) - Len(s) + 1) : MatchAt(t, i, s)

\* C14: a document with a link or reference definition whose target is a
\* mapped repository URL, with or without a trailing slash and a fragment,
\* becomes the document with the local path in place of the URL and its
\* slash: text, label and fragment are kept, as is everything around the
\* link but the blank run after a rewritten reference definition, of which
\* the last line break stays.
C14_LinkRewriting ==
  pc = "standardized" =>
    \A c \in CasesOf[buf] :
      (\E i \in 1..Len(c.links) : IsExact(c.links[i], URL_MAPPINGS)) =>
        /\ result = Expected(c, URL_MAPPINGS)
        /\ \A i \in 1..Len(c.links) :
             IsExact(c.links[i], URL_MAPPINGS) =>
               Occurs(Rewritten(c.links[i], URL_MAPPINGS), result)

\* [UCAN Delegation](https://github.com/ucan-wg/delegation) has become
\* [UCAN Delegation](/delegation/) under the mapping of delegation
C14_Witness ==
  /\ pc = "standardized"
  /\ delegationSpec \in { specs[i] : i \in 1..Len(specs) }
  /\ buf = <<"See", " ", "[", "UCAN", " ", "Delegation", "]", "(", "https:",
             "/", "/", "github.com", "/", "ucan-wg", "/", "delegation", ")",
             ".", NL>>
  /\ result = <<"See", " ", "[", "UCAN", " ", "Delegation", "]", "(", "/",
                "delegation", "/", ")", ".", NL>>

\* C15: a document none of whose links has a mapped repository URL as its
\* target, but for a trailing slash and a fragment, is returned as it is;
\* and a link that has no such target stands in the result as it stood,
\* whatever happens to the links beside it.
C15_ExactMatchOnly ==
  pc = "standardized" =>
    \A c \in CasesOf[buf] :
      /\ (\A i \in 1..Len(c.links) : ~IsExact(c.links[i], URL_MAPPINGS)) =>
           result = buf
      /\ \A i \in 1..Len(c.links) :
           ~IsExact(c.links[i], URL_MAPPINGS) =>
             /\ Occurs(RenderLink(c.links[i]), result)
             /\ result = Expected(c, URL_MAPPINGS)

\* under the mapping of delegation, a link below the repository has stayed
\* beside a link to the repository that was rewritten
C15_Witness ==
  /\ pc = "standardized"
  /\ specs = <<delegationSpec>>
  /\ result # buf
  /\ \E c \in CasesOf[buf] :
       /\ Len(c.links) = 2
       /\ c.links[1].form = "inline"
       /\ c.links[1].tail = <<"/", "blob", "/", "main">>
       /\ IsExact(c.links[2], URL_MAPPINGS)
       /\ Occurs(RenderLink(c.links[1]), result)

\* --------------------------------------------------------- processMarkdown alone
\* length of the long titles and paragraphs under study, which are written
\* one character a token
LongLen == 170

LongText == [i \in 1..LongLen |-> IF i % 8 = 0 THEN " " ELSE "a"]

V1 == <<"1", ".", "0", ".", "0", "-", "rc", ".", "1">>
V2 == <<"2", ".", "0">>
V3 == <<"3", ".", "1">>
V4 == <<"4", ".", "0", ".", "2">>

\* documents with any of the four places a version may stand in, in the
\* order of the rules or in the opposite order
VersionCases ==
  { [fam |-> "version", title |-> t, heading |-> h, meta |-> m, bare |-> b,
     reversed |-> r] :
      t \in {"none", "plain", "versioned"}, h \in BOOLEAN, m \in BOOLEAN,
      b \in BOOLEAN, r \in BOOLEAN }

\* documents whose first heading carries a version token
TitleCases ==
  { [fam |-> "title", before |-> x, prefix |-> p, number |-> n, after |-> y] :
      x \in {<<>>, <<"Container", " ", "Format">>},
      p \in {<<>>, <<"v">>, <<"V">>, <<"version", " ">>, <<"Version", " ", " ">>},
      n \in {<<"1", ".", "0">>, <<"2", ".", "1", ".", "0">>, V1},
      y \in {<<>>, <<"Draft">>} }

\* the first paragraphs of the Abstract sections under study
Paragraphs ==
  { <<"UCAN", " ", "is", " ", "a", " ", "scheme", ".">>,
    <<"UCAN", " ", "is", NL, "a", " ", "*", "trustless", NL, "scheme", "*", ".">>,
    <<"*", "*", "UCAN", "*", "*", " ", "is", " ", Backtick, "code", Backtick,
      " ", "with", " ", "[", "links", "]", "(", "u", ")", " ", "and", " ",
      "<", "b", ">", "tags", "<", "/", "b", ">", ".">>,
    <<"See", " ", "[", "UCAN", "]", " ", "for", " ", "details", ".">>,
    LongText,
    <<>> }

\* what follows the first paragraph: the end of the document, an empty line
\* and a paragraph, a line of one blank and a paragraph, a heading
Followers ==
  { <<NL>>,
    <<NL, NL, "Second", " ", "paragraph", ".", NL>>,
    <<NL, " ", NL, "Second", " ", "paragraph", ".", NL>>,
    <<NL, "#", "#", " ", "Status", NL, NL, "Draft", NL>> }

\* documents with an Abstract section; an empty section is followed by the
\* end of the document or by a heading
AbstractCases ==
  { c \in { [fam |-> "abstract", para |-> a, next |-> f] :
              a \in Paragraphs, f \in Followers } :
      c.para = <<>> => (Len(c.next) = 1 \/ c.next[2] \notin {NL, " "}) }

\* documents without an Abstract section
PlainCases ==
  { [fam |-> "plain", title |-> t] :
      t \in { <<>>, <<"UCAN", " ", "Delegation">>, LongText,
              <<"*", "*", "Bold", "*", "*", " ", "Spec", " ", "v", "1", ".", "0">> } }

\* the headings of the sections under study: the four of the removal
\* patterns, two that share a first letter with one of them, one that does not
SectionNames ==
  {"Editors", "Authors", "Dependencies", "Language", "Examples", "Design", "Status"}

\* the sequences of n distinct names of S
NameSeqs(S, n) == { q \in [1..n -> S] : Distinct(q) }

\* documents of one to three sections after the title and an introduction.
\* plain: "## Name", an empty line, a line of text; sub: the first section
\* has a "### Details" subsection; empty: the first section has no text;
\* noeol: the document ends with the last heading, without line break;
\* top: the last heading is of level 1
SectionCases ==
  { [fam |-> "sections", names |-> q, shape |-> sh] :
      q \in NameSeqs(SectionNames, 1) \cup NameSeqs(SectionNames, 2),
      sh \in {"plain", "sub", "empty", "noeol", "top"} }
  \cup { [fam |-> "sections", names |-> q, shape |-> "plain"] :
           q \in NameSeqs({"Editors", "Authors", "Examples", "Status"}, 3) }

\* texts in which no pattern of processMarkdown has a match: empty, without
\* heading, with brackets, emphasis and tags that do not close
OddTexts ==
  { <<>>,
    <<"No", " ", "heading", ".">>,
    <<NL, NL, NL>>,
    <<"#">>,
    <<"#", " ", NL>>,
    <<"#", "#", NL, "#", "Tag", NL>>,
    <<"[", "a", "]", "(", "b", NL, "c", ")">>,
    <<"]", "(", "[", NL, ")", ")", "[", NL>>,
    <<"[", "x", "]", ":", " ", "y", NL>>,
    <<"*", "*", "bold", " ", Backtick, "code", NL, "*", "it", NL>>,
    <<"<", "b", NL, "Version", " ", "none", NL>> }

OddCases == { [fam |-> "odd", text |-> t] : t \in OddTexts }

MarkdownCases ==
  VersionCases \cup TitleCases \cup AbstractCases \cup PlainCases
  \cup SectionCases \cup OddCases

\* the lines of a version case in the order of the rules
VersionLines(c) ==
  << IF c.title = "none" THEN <<>>
     ELSE <<"#", " ", "Container", " ", "Format">>
          \o (IF c.title = "versioned" THEN <<" ", "v">> \o V1 ELSE <<>>)
          \o <<NL>>,
     IF c.heading THEN <<"#", "#", " ", "Version", " ">> \o V2 \o <<NL>> ELSE <<>>,
     IF c.meta THEN <<"Version", ":", " ">> \o V3 \o <<NL>> ELSE <<>>,
     IF c.bare THEN <<"v">> \o V4 \o <<NL>> ELSE <<>> >>

\* the text of the heading of a title case
HeadingText(c) ==
  c.before \o (IF c.before # <<>> THEN <<" ">> ELSE <<>>)
  \o c.prefix \o c.number
  \o (IF c.after # <<>> THEN <<" ">> ELSE <<>>) \o c.after

\* the heading of section i of a sections case is of level 1
IsTop(c, i) == c.shape = "top" /\ i = Len(c.names)

\* the line of text that tells the section of a name from the others
Mark(name) == <<"of", " ", name, ".">>

\* section i of a sections case: heading and text
SectionText(c, i) ==
  (IF IsTop(c, i) THEN <<"#", " ">> ELSE <<"#", "#", " ">>) \o <<c.names[i]>>
  \o (IF c.shape = "noeol" /\ i = Len(c.names) THEN <<>>
      ELSE IF c.shape = "empty" /\ i = 1 THEN <<NL>>
      ELSE <<NL, NL, "Body", " ">> \o Mark(c.names[i]) \o <<NL>>
           \o (IF c.shape = "sub" /\ i = 1
               THEN <<NL, "#", "#", "#", " ", "Details", NL, NL, "More", " ">>
                    \o Mark(c.names[i]) \o <<NL>>
               ELSE <<>>))

\* the document of a case
RenderCase(c) ==
  CASE c.fam = "version" ->
         With(VersionLines(c), LAMBDA ls :
           (IF c.reversed THEN ls[4] \o ls[3] \o ls[2] \o ls[1]
            ELSE ls[1] \o ls[2] \o ls[3] \o ls[4])
           \o <<NL, "Text", ".", NL>>)
    [] c.fam = "title" ->
         <<"#", " ">> \o HeadingText(c) \o <<NL, NL, "Text", ".", NL>>
    [] c.fam = "abstract" ->
         <<"#", " ", "Spec", NL, NL, "#", " ", "Abstract", NL, NL>>
         \o c.para \o c.next
    [] c.fam = "plain" ->
         (IF c.title = <<>> THEN <<>> ELSE <<"#", " ">> \o c.title \o <<NL, NL>>)
         \o <<"Text", ".", NL>>
    [] c.fam = "sections" ->
         <<"#", " ", "Spec", NL, NL, "Intro", ".", NL>>
         \o JoinWith([i \in 1..Len(c.names) |-> <<NL>> \o SectionText(c, i)], <<>>)
    [] c.fam = "odd" -> c.text

MarkdownDocs == { RenderCase(c) : c \in MarkdownCases }

\* the cases a document is the text of
MarkdownCasesOf == [d \in MarkdownDocs |-> { c \in MarkdownCases : RenderCase(c) = d }]

InitMarkdown ==
  /\ specs \in { c \in Configs : c # <<>> }
  /\ buf \in MarkdownDocs
  /\ pc = "process"
  /\ AtRest

\* processMarkdown(content, spec.title, spec.githubUrl) for the first entry
Process ==
  /\ pc = "process"
  /\ result' = processMarkdown(buf, specs[1].title, specs[1].githubUrl)
  /\ pc' = "processed"
  /\ UNCHANGED <<specs, upstream, fs, sidebar, idx, items, buf, requested,
                 faults, run, prev, before, dryRun>>

SpecMarkdown == InitMarkdown /\ [][Process]_vars

\* the keys of the frontmatter block, and what ends it
FieldKeys == {"title: ", "description: ", "version: ", "editUrl: ", "---"}

\* the block has a line of the key
HasField(doc, key) == FirstPos(doc, 1, key) > 0

\* the text between the quotes of the line of the key
Field(doc, key) ==
  With(FirstPos(doc, 1, key), LAMBDA k :
    Slice(doc, k + 2,
          Least({ q \in (k + 2)..(Len(doc) - 2) :
                    /\ doc[q] = "\""
                    /\ doc[q + 1] = NL
                    /\ doc[q + 2] \in FieldKeys }) - 1))

\* the length of a text in characters
RECURSIVE CharLen(_)
CharLen(s) ==
  IF s = <<>> THEN 0
  ELSE (IF Head(s) = Backtick THEN 1 ELSE Len(Head(s))) + CharLen(Tail(s))

\* the version the rules give a version case, <<>> for none
ExpectedVersion(c) ==
  IF c.title = "versioned" THEN V1
  ELSE IF c.heading THEN V2
  ELSE IF c.meta THEN V3
  ELSE IF c.bare THEN V4
  ELSE <<>>

\* C16: of a document with candidates at any of the four places, the
\* frontmatter has the version of the first place in the order title,
\* "## Version" heading, "Version:" line, bare line that has one, wherever the
\* places stand in the document, and no version field when none has one.
C16_VersionPriority ==
  pc = "processed" =>
    \A c \in MarkdownCasesOf[buf] :
      c.fam = "version" =>
        IF ExpectedVersion(c) = <<>> THEN ~HasField(result, "version: ")
        ELSE /\ HasField(result, "version: ")
             /\ Field(result, "version: ") = ExpectedVersion(c)

\* a document with all four candidates, the title last, has the version of
\* its title; and one without candidate has been processed
C16_Witness ==
  /\ pc = "processed"
  /\ \E c \in MarkdownCasesOf[buf] :
       /\ c.fam = "version"
       /\ c.title = "versioned" /\ c.heading /\ c.meta /\ c.bare /\ c.reversed
  /\ Field(result, "version: ") = V1

\* C17: of a document whose first heading carries a version token, the
\* version is the number of the token without "v" or "version", and the
\* title is the heading without the token and the blanks before it.
C17_TitleVersion ==
  pc = "processed" =>
    \A c \in MarkdownCasesOf[buf] :
      c.fam = "title" =>
        /\ HasField(result, "version: ")
        /\ Field(result, "version: ") = c.number
        /\ Field(result, "title: ") =
             c.before \o (IF c.before # <<>> /\ c.after # <<>> THEN <<" ">> ELSE <<>>)
             \o c.after

\* "Container Format v1.0.0-rc.1" has given the version 1.0.0-rc.1 and the
\* title "Container Format"
C17_Witness ==
  /\ pc = "processed"
  /\ buf = <<"#", " ", "Container", " ", "Format", " ", "v">> \o V1
           \o <<NL, NL, "Text", ".", NL>>
  /\ Field(result, "version: ") = V1
  /\ Field(result, "title: ") = <<"Container", " ", "Format">>

\* C18: of a document with an Abstract section, the description ends with
\* "...", what stands before is a prefix of the sanitized first paragraph of
\* the section with its line breaks as blanks, and the description is no
\* longer than maxDescriptionLength + 3 characters.
C18_AbstractPrefix ==
  pc = "processed" =>
    \A c \in MarkdownCasesOf[buf] :
      c.fam = "abstract" =>
        With(Field(result, "description: "), LAMBDA d :
          /\ Len(d) >= 3
          /\ Slice(d, Len(d) - 2, Len(d)) = <<".", ".", ".">>
          /\ IsPrefix(Slice(d, 1, Len(d) - 3),
                      sanitizeText(NewlinesToSpaces(c.para)))
          /\ CharLen(d) <= maxDescriptionLength + 3)

SyntaxChars == {"[", "]", "*", Backtick, "<"}

\* C20: the title and the description of the frontmatter hold none of the
\* characters "[", "]", "*", backquote and "<".
C20_NoMarkup ==
  pc = "processed" =>
    \A key \in {"title: ", "description: "} :
      \A k \in 1..Len(Field(result, key)) : Field(result, key)[k] \notin SyntaxChars

\* ------------------------------------------------------------ section removal
\* what follows the frontmatter block of a processed document
BodyOf(doc) == Slice(doc, FirstPos(doc, 2, "---") + 3, Len(doc))

\* the sections of a case whose heading is "## " and one of the given names
Named(c, names) ==
  { i \in 1..Len(c.names) : c.names[i] \in names /\ ~IsTop(c, i) }

\* neither the heading of section i nor a line of its text is in the body
Absent(c, i, body) ==
  /\ ~Occurs(<<"#", "#", " ", c.names[i]>>, body)
  /\ ~Occurs(Mark(c.names[i]), body)

\* section i stands in the body as it stood in the document
Present(c, i, body) == Occurs(SectionText(c, i), body)

\* the four headings of the configuration's sectionsToRemove
sectionsToRemove == {"Editors", "Authors", "Dependencies", "Language"}

\* C21: of a document with "## Editors", "## Authors", "## Dependencies" or
\* "## Language" sections, the body of the output has neither the heading
\* nor the text of any of them.
C21_SectionRemoval ==
  pc = "processed" =>
    \A c \in MarkdownCasesOf[buf] :
      c.fam = "sections" =>
        \A i \in Named(c, sectionsToRemove) : Absent(c, i, BodyOf(result))

\* the values the sections-to-remove list of the configuration may have
SectionLists == SUBSET SectionNames

\* C24: whatever the sections-to-remove list of the configuration is, the
\* sections of the document that are on it are absent from the body of the
\* output and the others are present.
C24_ConfiguredSections ==
  pc = "processed" =>
    \A c \in MarkdownCasesOf[buf] :
      c.fam = "sections" =>
        \A list \in SectionLists :
          /\ \A i \in Named(c, list) : Absent(c, i, BodyOf(result))
          /\ \A i \in Named(c, SectionNames \ list) : Present(c, i, BodyOf(result))

\* C28: every section of the document whose heading is none of Editors,
\* Authors, Dependencies and Language stands unchanged in the body of the
\* output.
C28_OtherSectionsKept ==
  pc = "processed" =>
    \A c \in MarkdownCasesOf[buf] :
      c.fam = "sections" =>
        \A i \in 1..Len(c.names) :
          c.names[i] \notin sectionsToRemove => Present(c, i, BodyOf(result))

\* ------------------------------------------------------------------- totality
\* the document starts with a frontmatter block: "---", the title and
\* description lines, and "---" followed by an empty line
HasFrontmatter(doc) ==
  /\ MatchAt(doc, 1, <<"---", NL, "title: ", "\"">>)
  /\ HasField(doc, "description: ")
  /\ FirstPos(doc, 2, "---") > 0
  /\ MatchAt(doc, FirstPos(doc, 2, "---") - 2, <<"\"", NL, "---", NL, NL>>)

\* no pattern of the steps that rewrite the body can match the text: it has
\* no "# " and no "## " heading, no URL and no reference definition
Inert(s) ==
  /\ ~Occurs(<<"#", " ">>, s)
  /\ ~Occurs(<<"https:">>, s)
  /\ ~Occurs(<<"]", ":">>, s)

\* C23: processMarkdown returns, for every text, a frontmatter block
\* followed by a body; a step whose pattern has no match in the text returns
\* the text; and of a text in which no pattern has a match the output is the
\* block with the entry's title, "Documentation for <title>" and no version,
\* followed by the text itself.
C23_Total ==
  pc = "processed" =>
    /\ HasFrontmatter(result)
    /\ ~Occurs(<<"#", " ">>, buf) => RemoveTitle(buf) = buf
    /\ ~Occurs(<<"https:">>, buf) => standardizeUCANLinks(buf, URL_MAPPINGS) = buf
    /\ ~Occurs(<<"]", ":">>, buf) => NormalizeAnchorRefs(buf) = buf
    /\ \A h \in sectionsToRemove :
         ~Occurs(<<"#", "#", " ", h>>, buf) => RemoveSection(buf, h) = buf
    /\ Inert(buf) => BodyOf(result) = buf
    /\ \A c \in MarkdownCasesOf[buf] :
         c.fam = "odd" =>
           /\ BodyOf(result) = c.text
           /\ Field(result, "title: ") = specs[1].title
           /\ Field(result, "description: ") = DocumentationFor \o specs[1].title
           /\ ~HasField(result, "version: ")

\* the empty text has given a block with the entry's title and an empty
\* body, and a text of brackets that do not close has come out as it was
C23_Witness ==
  /\ pc = "processed"
  /\ \/ /\ buf = <<>>
        /\ BodyOf(result) = <<>>
        /\ Field(result, "title: ") = <<"UCAN", " ", "Delegation">>
     \/ /\ buf = <<"]", "(", "[", NL, ")", ")", "[", NL>>
        /\ BodyOf(result) = buf
        /\ HasFrontmatter(result)

\* ------------------------------------------------- generateUrlMappings alone
\* entries whose githubUrl is no raw-content URL: none, a page of the
\* repository, a raw URL without branch and path, another scheme; and a
\* second document of a repository that has one
noUrlSpec ==
  [ name |-> <<"notes">>, title |-> <<"Notes">>, githubUrl |-> <<>>,
    schemaUrl |-> <<>> ]

blobSpec ==
  [ name |-> <<"invocation">>, title |-> <<"UCAN", " ", "Invocation">>,
    githubUrl |-> <<"https:", "", "github.com", "ucan-wg", "invocation", "blob",
                    "main", "README.md">>,
    schemaUrl |-> <<>> ]

shortRawSpec ==
  [ name |-> <<"revocation">>, title |-> <<"UCAN", " ", "Revocation">>,
    githubUrl |-> <<"https:", "", "raw.githubusercontent.com", "ucan-wg",
                    "revocation">>,
    schemaUrl |-> <<>> ]

httpSpec ==
  [ name |-> <<"varsig">>, title |-> <<"Variable", " ", "Signature">>,
    githubUrl |-> <<"http:", "", "raw.githubusercontent.com", "ChainAgnostic",
                    "varsig", "main", "README.md">>,
    schemaUrl |-> <<>> ]

guideSpec ==
  [ name |-> <<"delegation", "guide">>, title |-> <<"Delegation", " ", "Guide">>,
    githubUrl |-> <<"https:", "", "raw.githubusercontent.com", "ucan-wg",
                    "delegation", "main", "docs", "guide.md">>,
    schemaUrl |-> <<>> ]

MappingUniverse ==
  SpecUniverse \cup {noUrlSpec, blobSpec, shortRawSpec, httpSpec, guideSpec}

\* every entry list of at most MaxSpecs entries of the universe
MappingConfigs ==
  { q \in UNION { [1..n -> MappingUniverse] : n \in 0..MaxSpecs } : Distinct(q) }

\* URL_MAPPINGS as scripts/link-processing.js spells it out
StaticUrlMappings ==
  { [from |-> <<"https:", "/", "/", "github.com", "/", o, "/", r>>,
     to |-> <<"/", n, "/">>] :
      <<o, r, n>> \in { <<"ucan-wg", "spec", "specification">>,
                        <<"ucan-wg", "delegation", "delegation">>,
                        <<"ucan-wg", "invocation", "invocation">>,
                        <<"ucan-wg", "promise", "promise">>,
                        <<"ucan-wg", "revocation", "revocation">>,
                        <<"ucan-wg", "container", "container">>,
                        <<"ChainAgnostic", "varsig", "varsig">> } }

InitMappings ==
  /\ specs \in MappingConfigs
  /\ buf = <<>>
  /\ pc = "generate"
  /\ AtRest

\* generateUrlMappings(PROCESSING_CONFIG.specs)
Generate ==
  /\ pc = "generate"
  /\ result' = generateUrlMappings(specs)
  /\ pc' = "generated"
  /\ UNCHANGED <<specs, upstream, fs, sidebar, idx, items, buf, requested,
                 faults, run, prev, before, dryRun>>

SpecMappings == InitMappings /\ [][Generate]_vars

\* a root-relative path that begins with "/" and ends with "/", then
\* possibly "#" and a fragment
IsLocalTarget(to) ==
  With(FirstPos(to, 1, "#"), LAMBDA h :
  With(IF h = 0 THEN Len(to) ELSE h - 1, LAMBDA e :
    e >= 1 /\ to[1] = "/" /\ to[e] = "/"))

\* the document URL of the entry is https://raw.githubusercontent.com/
\* owner/repo/branch/path
HasRawUrl(sp) ==
  /\ Len(sp.githubUrl) >= 7
  /\ SubSeq(sp.githubUrl, 1, 3) = <<"https:", "", "raw.githubusercontent.com">>
  /\ \A k \in 4..7 : sp.githubUrl[k] # ""

\* the mapping the entry is to contribute
MappingOf(sp) ==
  [ from |-> <<"https:", "/", "/", "github.com", "/", sp.githubUrl[4], "/",
               sp.githubUrl[5]>>,
    to   |-> <<"/">> \o UrlText(sp.name) \o <<"/">> ]

\* C22: the target of every generated mapping, and of every mapping of the
\* static list, begins and ends with "/" but for a "#fragment"; and the
\* generated mappings are, in the order of the entries, one per entry whose
\* document URL is a raw-content URL, from its repository URL to "/<name>/".
C22_LinkMappings ==
  pc = "generated" =>
    /\ \A k \in 1..Len(result) : IsLocalTarget(result[k].to)
    /\ \A m \in StaticUrlMappings : IsLocalTarget(m.to)
    /\ With(SelectSeq(specs, HasRawUrl), LAMBDA raw :
         /\ Len(result) = Len(raw)
         /\ \A k \in 1..Len(raw) : result[k] = MappingOf(raw[k]))

\* of an entry without URL and the Go library, the one mapping is that of
\* the library's repository to /libraries/go/
C22_Witness ==
  /\ pc = "generated"
  /\ specs = <<noUrlSpec, goSpec>>
  /\ result = << [ from |-> <<"https:", "/", "/", "github.com", "/", "ucan-wg",
                              "/", "go-ucan">>,
                   to |-> <<"/", "libraries", "/", "go", "/">> ] >>

\* ------------------------------------------------------- order within an entry
\* C25: the schema URL of an entry is requested only when the entry's
\* document was fetched and its index.md written whole, and a step that
\* writes the schema.md of an entry leaves it beside that index.md.
C25_SchemaAfterIndex ==
  /\ [](\A sp \in Configured :
          (sp.schemaUrl # <<>> /\ requested[sp.schemaUrl] > 0) =>
            /\ requested[sp.githubUrl] > 0
            /\ upstream[sp.githubUrl].ok
            /\ fs[IndexPath(sp)].kind = "file"
            /\ fs[IndexPath(sp)] = ExpectedIndex(sp))
  /\ [][\A sp \in SpecUniverse :
          (fs'[SchemaPath(sp)] # fs[SchemaPath(sp)]
             /\ fs'[SchemaPath(sp)].kind = "file") =>
            /\ fs'[IndexPath(sp)].kind = "file"
            /\ fs'[IndexPath(sp)] = ExpectedIndex(sp)]_vars

\* a run has ended in which the document of delegation was fetched, the write
\* of its index.md threw, and the schema, which upstream would have served,
\* was never requested
C25_Witness ==
  /\ pc = "done"
  /\ delegationSpec \in Configured
  /\ upstream[delegationSpec.githubUrl].ok
  /\ upstream[delegationSpec.schemaUrl].ok
  /\ requested[delegationSpec.githubUrl] = 1
  /\ requested[delegationSpec.schemaUrl] = 0
  /\ faults = 1
  /\ fs[SchemaPath(delegationSpec)] = NoNode

\* ------------------------------------------------------------------ exit status
\* the steps of a run in which the filesystem calls of clearDocsDirectory,
\* of the mkdir loop, of generateSidebarConfig and of createTemplateContent
\* do not throw; the writes of index.md and schema.md may
NextFetchFaults == Step \/ FsFaultIndex \/ FsFaultSchema

\* main has neither returned nor exited: the run has a step to take
Running == pc \notin {"done", "failed"}

\* such a run, which goes on while it has a step to take: weak fairness of
\* its steps, WF_vars(NextFetchFaults), with ENABLED <<NextFetchFaults>>_vars
\* written as the state predicate it amounts to
SpecFetchFaults ==
  /\ Init
  /\ [][NextFetchFaults]_vars
  /\ (<>[]Running => []<><<NextFetchFaults>>_vars)

\* C26: such a run never takes the failure exit and ends completed, whatever
\* upstream answers.
C26_ExitStatus == [](pc # "failed") /\ <>(pc = "done")

\* a run of two entries has ended completed although every fetch failed and
\* no index.md was written
C26_Witness ==
  /\ pc = "done"
  /\ Len(specs) = 2
  /\ \A u \in Urls : ~upstream[u].ok
  /\ \A sp \in Configured :
       requested[sp.githubUrl] = 1 /\ fs[IndexPath(sp)] = NoNode

\* ------------------------------------------------------- link check and fixer
\* C27: checkUCANLinkIssues finds nothing in a text exactly when
\* standardizeUCANLinks returns the text as it is; what standardizeUCANLinks
\* returns it returns unchanged when applied again, and the check finds
\* nothing in it.
C27_CheckAgreesWithFix ==
  pc = "standardized" =>
    /\ checkUCANLinkIssues(buf) = {} <=> result = buf
    /\ standardizeUCANLinks(result, URL_MAPPINGS) = result
    /\ checkUCANLinkIssues(result) = {}

\* a document with a link to a mapped repository URL with its slash, found
\* by the check, has been rewritten, beside a link that is no finding and
\* stays
C27_Witness ==
  /\ pc = "standardized"
  /\ \E f \in checkUCANLinkIssues(buf) : f.url[Len(f.url)] = "/"
  /\ result # buf
  /\ Occurs(RepoUrlOf(delegationSpec) \o <<"-", "x">>, result)
  /\ checkUCANLinkIssues(result) = {}

\* --------------------------------------------------- what a fixing pass writes
\* C29: when a fixing run processes a file, fs.writeFile is called exactly
\* when the content after the fixes differs from the content read, the
\* returned changed flag tells exactly that, the file then holds the fixed
\* content, and a file without finding is not written and stays as it is.
C29_WriteIffChanged ==
  [][(pc = "file" /\ items # <<>> /\ ~dryRun) =>
       /\ result'.written <=> result'.content # fs[Head(items)].data
       /\ result'.changed <=> result'.written
       /\ result'.written => fs'[Head(items)] = FileNode(result'.content)
       /\ ~result'.written => fs' = fs
       /\ result'.issues = {} => (~result'.written /\ fs' = fs)]_vars

\* a fixing run has rewritten a file with findings and has then left a file
\* without finding unwritten
C29_Witness ==
  /\ ~dryRun
  /\ pc = "file"
  /\ items = <<>>
  /\ fs[IndexPath(delegationSpec)] # before[IndexPath(delegationSpec)]
  /\ result.issues = {}
  /\ ~result.written
  /\ ~result.changed
  /\ fs[<<"examples.md">>] = before[<<"examples.md">>]

\* C30: whenever processFile is called on a file, its findings are the
\* findings that processFile in the other mode, dry run for fixing run and
\* fixing run for dry run, has on the same content.
C30_DryRunPredicts ==
  [][(pc = "file" /\ items # <<>>) =>
       result'.issues = processFile(fs[Head(items)].data, ~dryRun).issues]_vars

====
